---------------------------- MODULE Spec2Model ----------------------------
(***************************************************************************)
(* ARFit-Kit core: the frame orchestrator (ARFitKit), the PBD cloth        *)
(* engine (PhysicsEngine), the software rasterizer (ARRenderer) and the    *)
(* body tracker, as one state machine.                                     *)
(*                                                                         *)
(* Numbers.  The code computes in 32-bit float.  The model computes in     *)
(* fixed point: lengths, velocities and normals are integers in units of   *)
(* 1/1000 (Milli); a division rounds to the nearest integer.  Epsilons     *)
(* that are below this resolution (0.0001 in the constraint solver, 1e-6   *)
(* in the collision normal) are modelled by their effect: "distance is     *)
(* zero" and "divide by the distance unless it is zero".                   *)
(*                                                                         *)
(* Loops are recursive operators.  A loop body of the form                 *)
(*   LET q == f(p) IN IF q = p THEN Loop(p) ELSE Loop(q)                   *)
(* is Loop(f(p)); the comparison only makes TLC compute q before the next  *)
(* iteration instead of nesting the unevaluated iterations.                *)
(*                                                                         *)
(* Ghost fields.  Particles and constraints carry the garment (and vertex) *)
(* they were created for; the code does not store them, they only name     *)
(* the objects the properties speak about.                                 *)
(***************************************************************************)
EXTENDS Integers, Sequences, FiniteSets, TLC

(***************************************************************************)
(* Bounds of the model                                                     *)
(***************************************************************************)
MaxParticles == 10      \* tryOn / addGarment are cut off beyond this array size
MaxFrames == 2          \* processFrame calls per run
MaxObjects == 3         \* tryOn is cut off beyond this many renderer objects
MaxSessions == 1        \* sessions started per run
SmplVertexCount == 25   \* body-mesh vertices kept (the code keeps 6890)

(***************************************************************************)
(* Program constants                                                       *)
(***************************************************************************)
Milli == 1000               \* fixed-point unit: 1.0 is 1000
maxGarments == 2            \* SessionConfig::maxGarments as the host passes it to initialize
targetFPS == 60             \* SessionConfig::targetFPS
solverIterations == 10      \* PhysicsConfig::solverIterations
dampingPct == 99            \* PhysicsConfig::damping, in percent
stretchStiffness == 900     \* PhysicsConfig::stretchStiffness
collisionMargin == 10       \* PhysicsConfig::collisionMargin
gravityY == -9810           \* update(): gravity = {0, -9.81, 0}
headRadius == 150
armRadius == 80
torsoRadius == 220
frictionTenths == 7         \* solveCollisions(): velocity * 0.7
NOSE == 0
LEFT_SHOULDER == 11
RIGHT_SHOULDER == 12
LEFT_HIP == 23
RIGHT_HIP == 24
NoAnchor == -1
anchorMinY == 450           \* addGarment(): position.y > 0.45
anchorMinAbsX == 150        \* addGarment(): abs(position.x) > 0.15

(***************************************************************************)
(* Arithmetic                                                              *)
(***************************************************************************)
Abs(a) == IF a < 0 THEN -a ELSE a

\* a / b rounded to the nearest integer (b > 0)
RDiv(a, b) == (2 * a + b) \div (2 * b)

RECURSIVE SqrtSearch(_, _, _)
SqrtSearch(n, lo, hi) ==
    IF lo >= hi THEN lo
    ELSE LET mid == (lo + hi + 1) \div 2
         IN  IF mid * mid <= n THEN SqrtSearch(n, mid, hi)
             ELSE SqrtSearch(n, lo, mid - 1)

\* floor(sqrt(n)), n < 2^30
ISqrt(n) == SqrtSearch(n, 0, 32767)

VAdd(a, b) == <<a[1] + b[1], a[2] + b[2], a[3] + b[3]>>
VSub(a, b) == <<a[1] - b[1], a[2] - b[2], a[3] - b[3]>>
VScaleDiv(a, num, den) == <<RDiv(a[1] * num, den), RDiv(a[2] * num, den), RDiv(a[3] * num, den)>>
VLenSq(a) == a[1] * a[1] + a[2] * a[2] + a[3] * a[3]
VLen(a) == ISqrt(VLenSq(a))
Zero3 == <<0, 0, 0>>

(***************************************************************************)
(* Garments and meshes.  GarmentConverter::convert gives every garment a   *)
(* copy of the T-shirt template (300 vertices) fitted to its image, so the *)
(* garments loadGarment registers all have a mesh; the model keeps two     *)
(* small fitted meshes.  A caller of the PhysicsEngine itself can also     *)
(* pass a null pointer or a Garment it made without a mesh.                *)
(***************************************************************************)
NullGarment == "null"
BareGarment == "bare"
Garments == {"g1", "g2"}
HasMesh(g) == g \in Garments
MeshedGarments == {g \in Garments : HasMesh(g)}

\* faces: 0-based vertex indices, as Face::indices
Faces(g) ==
    IF g = "g1" THEN << <<0, 1, 2>> >>
    ELSE << <<0, 1, 2>>, <<0, 2, 3>> >>

\* vertex positions of the mesh as loaded
RestPositions(g) ==
    IF g = "g1" THEN << <<-300, 600, 0>>, <<300, 600, 0>>, <<0, -400, 0>> >>
    ELSE << <<-200, -300, 0>>, <<200, -300, 0>>, <<200, 300, 0>>, <<-100, 300, 0>> >>

(***************************************************************************)
(* Mesh::calculateNormals                                                  *)
(***************************************************************************)
Cross(a, b) ==
    <<RDiv(a[2] * b[3] - a[3] * b[2], Milli),
      RDiv(a[3] * b[1] - a[1] * b[3], Milli),
      RDiv(a[1] * b[2] - a[2] * b[1], Milli)>>

FaceNormal(pos, face) ==
    Cross(VSub(pos[face[2] + 1], pos[face[1] + 1]), VSub(pos[face[3] + 1], pos[face[1] + 1]))

RECURSIVE AccumulatedNormal(_, _, _, _)
AccumulatedNormal(pos, faces, v, k) ==
    IF k > Len(faces) THEN Zero3
    ELSE LET rest == AccumulatedNormal(pos, faces, v, k + 1)
             f == faces[k]
             \* a face adds its normal once per corner that is vertex v
             times == Cardinality({i \in 1..3 : f[i] = v})
         IN  IF times = 0 THEN rest
             ELSE VAdd(rest, VScaleDiv(FaceNormal(pos, f), times, 1))

Normalize(n) ==
    LET len == VLen(n)
    IN  IF len > 0 THEN VScaleDiv(n, Milli, len) ELSE n

\* the vertex array (position, normal) after calculateNormals on positions pos
calculateNormals(pos, faces) ==
    [i \in 1..Len(pos) |->
        [position |-> pos[i], normal |-> Normalize(AccumulatedNormal(pos, faces, i - 1, 1))]]

MeshPositions(mesh) == [i \in 1..Len(mesh) |-> mesh[i].position]

\* Mesh::createTShirtTemplate ends with calculateNormals; convert copies it
LoadedMesh(g) == calculateNormals(RestPositions(g), Faces(g))

(***************************************************************************)
(* PhysicsEngine (PBD cloth)                                               *)
(***************************************************************************)
EmptyMap == [g \in {} |-> 0]

\* PhysicsEngine::Impl after construction
NewPhysicsEngine ==
    [initialized |-> FALSE, particles |-> <<>>, constraints |-> <<>>,
     garmentMap |-> EmptyMap, lastBody |-> <<>>]

\* the particle addGarment makes for one vertex
NewParticle(pos, g, i) ==
    LET anchored == pos[2] > anchorMinY /\ Abs(pos[1]) > anchorMinAbsX
    IN  [position |-> pos, prevPosition |-> pos, velocity |-> Zero3,
         invMass |-> IF anchored THEN 0 ELSE Milli,
         anchorBoneId |-> IF anchored
                          THEN (IF pos[1] < 0 THEN LEFT_SHOULDER ELSE RIGHT_SHOULDER)
                          ELSE NoAnchor,
         garment |-> g, vertex |-> i]

\* the three (a, b) edges of a face, a < b, offset into the particle array
FaceEdge(face, i, startOffset) ==
    LET a == startOffset + face[i + 1]
        b == startOffset + face[((i + 1) % 3) + 1]
    IN  IF a > b THEN <<b, a>> ELSE <<a, b>>

RECURSIVE ConstraintsFrom(_, _, _, _, _, _, _)
ConstraintsFrom(particles, faces, startOffset, g, k, i, edges) ==
    IF k > Len(faces) THEN <<>>
    ELSE LET e == FaceEdge(faces[k], i, startOffset)
             nk == IF i = 2 THEN k + 1 ELSE k
             ni == IF i = 2 THEN 0 ELSE i + 1
         IN  IF e \in edges
             THEN ConstraintsFrom(particles, faces, startOffset, g, nk, ni, edges)
             ELSE << [p1 |-> e[1], p2 |-> e[2],
                      restLength |-> VLen(VSub(particles[e[1] + 1].position,
                                               particles[e[2] + 1].position)),
                      stiffness |-> stretchStiffness, garment |-> g] >>
                  \o ConstraintsFrom(particles, faces, startOffset, g, nk, ni, edges \cup {e})

createConstraintsFromMesh(particles, g, startOffset) ==
    ConstraintsFrom(particles, Faces(g), startOffset, g, 1, 0, {})

\* addGarment accepts a garment only if it is non-null and has a mesh
addGarmentRejects(g) == g = NullGarment \/ ~HasMesh(g)

\* an addGarment that books an (empty) range before it looks at the garment
addGarmentBooksFirst(eng, g, meshes) ==
    LET start == Len(eng.particles)
        vertices == IF addGarmentRejects(g) THEN <<>> ELSE meshes[g]
        ps == eng.particles
              \o [i \in 1..Len(vertices) |-> NewParticle(vertices[i].position, g, i - 1)]
        cs == IF addGarmentRejects(g) THEN eng.constraints
              ELSE eng.constraints \o createConstraintsFromMesh(ps, g, start)
        gm == [h \in DOMAIN eng.garmentMap \cup {g} |->
                 IF h = g THEN [start |-> start, count |-> Len(vertices)]
                 ELSE eng.garmentMap[h]]
    IN  [engine |-> [eng EXCEPT !.particles = ps, !.constraints = cs, !.garmentMap = gm],
         error |-> IF addGarmentRejects(g) THEN "INVALID_IMAGE" ELSE "SUCCESS"]

\* PhysicsEngine::addGarment(garment): [engine, error]; meshes are the
\* garments' current vertex arrays
addGarment(eng, g, meshes) ==
    IF addGarmentRejects(g) THEN [engine |-> eng, error |-> "INVALID_IMAGE"]
    ELSE LET start == Len(eng.particles)
             vertices == meshes[g]
             ps == eng.particles
                   \o [i \in 1..Len(vertices) |-> NewParticle(vertices[i].position, g, i - 1)]
             cs == eng.constraints \o createConstraintsFromMesh(ps, g, start)
             gm == [h \in DOMAIN eng.garmentMap \cup {g} |->
                      IF h = g THEN [start |-> start, count |-> Len(vertices)]
                      ELSE eng.garmentMap[h]]
         IN  [engine |-> [eng EXCEPT !.particles = ps, !.constraints = cs, !.garmentMap = gm],
              error |-> "SUCCESS"]

\* a removeGarment that also takes g's particles and constraints out and moves
\* the later ranges down, but leaves the other constraints' indices as they were
removeGarmentCompacting(eng, g) ==
    IF g \notin DOMAIN eng.garmentMap THEN eng
    ELSE LET r == eng.garmentMap[g]
             ps == [i \in 1..(Len(eng.particles) - r.count) |->
                      IF i <= r.start THEN eng.particles[i] ELSE eng.particles[i + r.count]]
             gm == [h \in DOMAIN eng.garmentMap \ {g} |->
                      IF eng.garmentMap[h].start > r.start
                      THEN [eng.garmentMap[h] EXCEPT !.start = @ - r.count]
                      ELSE eng.garmentMap[h]]
         IN  [eng EXCEPT !.particles = ps, !.garmentMap = gm,
                         !.constraints = SelectSeq(eng.constraints, LAMBDA c : c.garment # g)]

\* PhysicsEngine::removeGarment: erases the range only
removeGarment(eng, g) ==
    [eng EXCEPT !.garmentMap = [h \in DOMAIN eng.garmentMap \ {g} |-> eng.garmentMap[h]]]

\* a reset that forgets to clear the garment ranges
resetKeepingRanges(eng) ==
    [eng EXCEPT !.particles = <<>>, !.constraints = <<>>]

\* PhysicsEngine::reset
reset(eng) ==
    [eng EXCEPT !.particles = <<>>, !.constraints = <<>>, !.garmentMap = EmptyMap]

\* PhysicsEngine::updateCollisionBody
updateCollisionBody(eng, body) == [eng EXCEPT !.lastBody = body]

\* PhysicsEngine::getParticlePositions
getParticlePositions(eng, g) ==
    IF g \in DOMAIN eng.garmentMap
    THEN [i \in 1..eng.garmentMap[g].count |->
            eng.particles[eng.garmentMap[g].start + i].position]
    ELSE <<>>

(***************************************************************************)
(* PhysicsEngine::Impl::update, phase by phase.  fps is 1/dt.              *)
(***************************************************************************)
\* a phase 1 that integrates every particle, anchored or not
applyForceToAll(p, body, fps) ==
    LET v == VAdd(p.velocity, <<0, RDiv(gravityY, fps), 0>>)
    IN  [p EXCEPT !.velocity = v, !.prevPosition = p.position,
                  !.position = VAdd(p.position, VScaleDiv(v, 1, fps))]

\* phase 1 for one particle: gravity and tentative position, or anchor follow
applyForce(p, body, fps) ==
    IF p.invMass > 0
    THEN LET v == VAdd(p.velocity, <<0, RDiv(gravityY, fps), 0>>)
         IN  [p EXCEPT !.velocity = v, !.prevPosition = p.position,
                       !.position = VAdd(p.position, VScaleDiv(v, 1, fps))]
    ELSE IF p.anchorBoneId # NoAnchor /\ p.anchorBoneId < Len(body)
         THEN [p EXCEPT !.prevPosition = p.position,
                        !.position = body[p.anchorBoneId + 1]]
         ELSE p

applyForces(ps, body, fps) == [i \in 1..Len(ps) |-> applyForce(ps[i], body, fps)]

\* a projection that pulls particles at the same point apart along x
solveConstraintSeparating(ps, c) ==
    LET p1 == ps[c.p1 + 1]
        p2 == ps[c.p2 + 1]
        delta == VSub(p1.position, p2.position)
        dist == VLen(delta)
        wsum == p1.invMass + p2.invMass
    IN  IF wsum = 0 THEN ps
        ELSE IF dist = 0
        THEN [ps EXCEPT ![c.p1 + 1].position = VAdd(p1.position, <<c.restLength, 0, 0>>)]
        ELSE LET diff == RDiv((dist - c.restLength) * c.stiffness, wsum)
                 correction == VScaleDiv(delta, diff, dist)
                 q1 == IF p1.invMass > 0
                       THEN [p1 EXCEPT !.position =
                               VSub(p1.position, VScaleDiv(correction, p1.invMass, Milli))]
                       ELSE p1
                 q2 == IF p2.invMass > 0
                       THEN [p2 EXCEPT !.position =
                               VAdd(p2.position, VScaleDiv(correction, p2.invMass, Milli))]
                       ELSE p2
             IN  [ps EXCEPT ![c.p1 + 1] = q1, ![c.p2 + 1] = q2]

\* a projection that moves both particles the same way
solveConstraintSameWay(ps, c) ==
    LET p1 == ps[c.p1 + 1]
        p2 == ps[c.p2 + 1]
        delta == VSub(p1.position, p2.position)
        dist == VLen(delta)
        wsum == p1.invMass + p2.invMass
    IN  IF dist = 0 \/ wsum = 0 THEN ps
        ELSE LET diff == RDiv((dist - c.restLength) * c.stiffness, wsum)
                 correction == VScaleDiv(delta, diff, dist)
                 q1 == IF p1.invMass > 0
                       THEN [p1 EXCEPT !.position =
                               VSub(p1.position, VScaleDiv(correction, p1.invMass, Milli))]
                       ELSE p1
                 q2 == IF p2.invMass > 0
                       THEN [p2 EXCEPT !.position =
                               VSub(p2.position, VScaleDiv(correction, p2.invMass, Milli))]
                       ELSE p2
             IN  [ps EXCEPT ![c.p1 + 1] = q1, ![c.p2 + 1] = q2]

\* one distance constraint, in place on the particle array
solveConstraint(ps, c) ==
    LET p1 == ps[c.p1 + 1]
        p2 == ps[c.p2 + 1]
        delta == VSub(p1.position, p2.position)
        dist == VLen(delta)
        wsum == p1.invMass + p2.invMass
    IN  IF dist = 0 \/ wsum = 0 THEN ps
        ELSE LET diff == RDiv((dist - c.restLength) * c.stiffness, wsum)
                 correction == VScaleDiv(delta, diff, dist)
                 q1 == IF p1.invMass > 0
                       THEN [p1 EXCEPT !.position =
                               VSub(p1.position, VScaleDiv(correction, p1.invMass, Milli))]
                       ELSE p1
                 q2 == IF p2.invMass > 0
                       THEN [p2 EXCEPT !.position =
                               VAdd(p2.position, VScaleDiv(correction, p2.invMass, Milli))]
                       ELSE p2
             IN  [ps EXCEPT ![c.p1 + 1] = q1, ![c.p2 + 1] = q2]

RECURSIVE solveConstraints(_, _, _)
solveConstraints(ps, cs, k) ==
    IF k > Len(cs) THEN ps
    ELSE LET qs == solveConstraint(ps, cs[k])
         IN  IF qs = ps THEN solveConstraints(ps, cs, k + 1) ELSE solveConstraints(qs, cs, k + 1)

\* radius preset of body vertex i (0-based)
collisionRadius(i) ==
    IF i = LEFT_HIP \/ i = RIGHT_HIP THEN torsoRadius
    ELSE IF i = NOSE THEN headRadius
    ELSE armRadius

\* one particle against body vertex i
collide(p, bv, i) ==
    LET diff == VSub(p.position, bv)
        distSq == VLenSq(diff)
        limit == collisionRadius(i) + collisionMargin
    IN  IF distSq < limit * limit
        THEN LET dist == ISqrt(distSq)
             IN  [p EXCEPT !.position = IF dist = 0 THEN bv
                                        ELSE VAdd(bv, VScaleDiv(diff, limit, dist)),
                           !.velocity = VScaleDiv(p.velocity, frictionTenths, 10)]
        ELSE p

RECURSIVE collideAll(_, _, _)
collideAll(p, body, i) ==
    IF i >= Len(body) THEN p
    ELSE LET q == collide(p, body[i + 1], i)
         IN  IF q = p THEN collideAll(p, body, i + 1) ELSE collideAll(q, body, i + 1)

solveCollisions(ps, body) ==
    [k \in 1..Len(ps) |-> IF ps[k].invMass <= 0 THEN ps[k] ELSE collideAll(ps[k], body, 0)]

\* phase 2 and 3: n solver iterations, each a constraint pass then a collision pass
RECURSIVE solverLoop(_, _, _, _)
solverLoop(ps, cs, body, n) ==
    IF n = 0 THEN ps
    ELSE LET qs == solveCollisions(solveConstraints(ps, cs, 1), body)
         IN  IF qs = ps THEN solverLoop(ps, cs, body, n - 1) ELSE solverLoop(qs, cs, body, n - 1)

\* a phase 4 that damps the velocity the step has integrated and collided
deriveVelocitiesFromVelocity(ps, fps) ==
    [i \in 1..Len(ps) |->
        IF ps[i].invMass > 0
        THEN [ps[i] EXCEPT !.velocity = VScaleDiv(ps[i].velocity, dampingPct, 100)]
        ELSE ps[i]]

\* phase 4
deriveVelocities(ps, fps) ==
    [i \in 1..Len(ps) |->
        IF ps[i].invMass > 0
        THEN [ps[i] EXCEPT !.velocity =
                VScaleDiv(VSub(ps[i].position, ps[i].prevPosition), fps * dampingPct, 100)]
        ELSE ps[i]]

update(eng, fps) ==
    IF eng.particles = <<>> THEN eng
    ELSE [eng EXCEPT !.particles =
            deriveVelocities(
                solverLoop(applyForces(eng.particles, eng.lastBody, fps),
                           eng.constraints, eng.lastBody, solverIterations),
                fps)]

\* PhysicsEngine::step
step(eng, fps) == update(eng, fps)

(***************************************************************************)
(* BodyTracker                                                             *)
(***************************************************************************)
LandmarkIds == 0..32

NewBodyTracker ==
    [initialized |-> FALSE, hasPrevFrame |-> FALSE,
     prevLandmarks |-> [i \in LandmarkIds |-> Zero3]]

\* the simulated landmark set of BodyTracker::processFrame for a given sway
RawLandmarks(sway) ==
    [i \in LandmarkIds |->
        CASE i = 0 -> <<sway, -800, 0>>
          [] i = 11 -> <<-200 + sway, -500, 0>>
          [] i = 12 -> <<200 + sway, -500, 0>>
          [] i = 13 -> <<-350 + sway, -200, 50>>
          [] i = 14 -> <<350 + sway, -200, 50>>
          [] i = 15 -> <<-400, 0, 100>>
          [] i = 16 -> <<400, 0, 100>>
          [] i = 23 -> <<-120, 100, 0>>
          [] i = 24 -> <<120, 100, 0>>
          [] i = 25 -> <<-150, 500, 0>>
          [] i = 26 -> <<150, 500, 0>>
          [] OTHER -> Zero3]

\* prev + (current - prev) * smoothingFactor, smoothingFactor = 0.6
smoothLandmark(current, prev) == VAdd(prev, VScaleDiv(VSub(current, prev), 6, 10))

\* BodyTracker::fitSMPL: translation = centre of the hips
fitSMPL(landmarks) ==
    [translation |-> VScaleDiv(VAdd(landmarks[LEFT_HIP], landmarks[RIGHT_HIP]), 1, 2)]

\* BodyTracker::getSMPLMesh: the all-zero template scaled, then translated
getSMPLMesh(params) == [i \in 1..SmplVertexCount |-> params.translation]

\* BodyTracker::processFrame: [tracker, error, landmarks, bodyMesh]
trackFrame(tracker, sway) ==
    IF ~tracker.initialized
    THEN [tracker |-> tracker, error |-> "INITIALIZATION_FAILED",
          landmarks |-> <<>>, bodyMesh |-> <<>>]
    ELSE LET raw == RawLandmarks(sway)
             lm == IF tracker.hasPrevFrame
                   THEN [i \in LandmarkIds |-> smoothLandmark(raw[i], tracker.prevLandmarks[i])]
                   ELSE raw
         IN  [tracker |-> [tracker EXCEPT !.prevLandmarks = lm, !.hasPrevFrame = TRUE],
              error |-> "SUCCESS", landmarks |-> lm,
              bodyMesh |-> getSMPLMesh(fitSMPL(lm))]

(***************************************************************************)
(* ARRenderer (software rasterizer).  Screen coordinates are integers in   *)
(* units of 1/SubPixel pixel; barycentric weights in percent; depth in     *)
(* 1/1000.  A pixel is an <<r, g, b, a>> tuple.                            *)
(***************************************************************************)
SubPixel == 8                \* fixed-point unit of screen coordinates
FarDepth == 1000 * Milli        \* drawGarments(): depth buffer filled with 1000.0

NoFrame == [width |-> 0, height |-> 0, pixels |-> <<>>]

\* ARRenderer::Impl after construction
NewRenderer ==
    [initialized |-> FALSE, currentFrame |-> NoFrame, garments |-> <<>>,
     framebuffer |-> <<>>, depthBuffer |-> <<>>, width |-> 0, height |-> 0]

\* std::vector::resize(n): keeps the first n elements, value-initializes the rest
Resized(v, n, fill) == [i \in 1..n |-> IF i <= Len(v) THEN v[i] ELSE fill]

\* ARRenderer::Impl::resize
resize(r, w, h) ==
    [r EXCEPT !.width = w, !.height = h,
              !.framebuffer = Resized(r.framebuffer, w * h, <<0, 0, 0, 0>>),
              !.depthBuffer = Resized(r.depthBuffer, w * h, 0)]

cameraOffset == 2500            \* outZ = p.z + 2.5f
nearDepth == 100                \* if (outZ < 0.1f) outZ = 0.1f

\* a projection that mirrors points behind the camera instead of clamping them
projectMirrored(p, w, h) ==
    LET z0 == Abs(p[3] + cameraOffset)
        outZ == IF z0 < nearDepth THEN nearDepth ELSE z0
        x == RDiv(RDiv(p[1] * 1200, outZ) * h, w)
        y == RDiv(p[2] * 1200, outZ)
    IN  [x |-> RDiv((x + Milli) * w * SubPixel, 2 * Milli),
         y |-> RDiv((Milli - y) * h * SubPixel, 2 * Milli),
         z |-> outZ]

\* ARRenderer::Impl::project: [x, y] in sub-pixels, z in 1/1000
project(p, w, h) ==
    LET z0 == p[3] + cameraOffset
        outZ == IF z0 < nearDepth THEN nearDepth ELSE z0
        x == RDiv(RDiv(p[1] * 1200, outZ) * h, w)
        y == RDiv(p[2] * 1200, outZ)
    IN  [x |-> RDiv((x + Milli) * w * SubPixel, 2 * Milli),
         y |-> RDiv((Milli - y) * h * SubPixel, 2 * Milli),
         z |-> outZ]

\* the weights of barycentric() from its dot products; nv, nw are v * denom, w * denom
weights(denom, nv, nw) ==
    IF denom = 0 THEN [inside |-> FALSE, u |-> 0, v |-> 0, w |-> 0]
    ELSE [inside |-> nv >= 0 /\ nw >= 0 /\ denom - nv - nw >= 0,
          u |-> 100 - RDiv(nv * 100, denom) - RDiv(nw * 100, denom),
          v |-> RDiv(nv * 100, denom), w |-> RDiv(nw * 100, denom)]

fromDots(d00, d01, d11, d20, d21) ==
    weights(d00 * d11 - d01 * d01, d11 * d20 - d01 * d21, d00 * d21 - d01 * d20)

fromEdges(v0x, v0y, v1x, v1y, v2x, v2y) ==
    fromDots(v0x * v0x + v0y * v0y, v0x * v1x + v0y * v1y, v1x * v1x + v1y * v1y,
             v2x * v0x + v2y * v0y, v2x * v1x + v2y * v1y)

\* ARRenderer::Impl::barycentric: [inside, u, v, w], weights in percent
barycentric(a, b, c, px, py) ==
    fromEdges(b.x - a.x, b.y - a.y, c.x - a.x, c.y - a.y, px - a.x, py - a.y)

Min3(a, b, c) == IF a <= b /\ a <= c THEN a ELSE IF b <= c THEN b ELSE c
Max3(a, b, c) == IF a >= b /\ a >= c THEN a ELSE IF b >= c THEN b ELSE c
Floor(m) == m \div SubPixel
Ceil(m) == -((-m) \div SubPixel)
Max2(a, b) == IF a >= b THEN a ELSE b
Min2(a, b) == IF a <= b THEN a ELSE b

\* max(0.2, normal . lightDir), lightDir = (0, 0.5, 1)
lightIntensity(normal) == Max2(200, RDiv(normal[2] * 500 + normal[3] * Milli, Milli))

\* (uint8_t)(c * lightIntensity)
Shade(c, light) == ((c * light) \div Milli) % 256

garmentColor(light) == <<Shade(255, light), Shade(220, light), Shade(220, light), 255>>

\* a bounding box clamped at its lower corner only
boundingBoxOpenAbove(p0, p1, p2, w, h) ==
    [minX |-> Max2(0, Floor(Min3(p0.x, p1.x, p2.x))),
     maxX |-> Ceil(Max3(p0.x, p1.x, p2.x)),
     minY |-> Max2(0, Floor(Min3(p0.y, p1.y, p2.y))),
     maxY |-> Ceil(Max3(p0.y, p1.y, p2.y))]

\* the bounding box of a projected triangle, clamped to the screen
boundingBox(p0, p1, p2, w, h) ==
    [minX |-> Max2(0, Floor(Min3(p0.x, p1.x, p2.x))),
     maxX |-> Min2(w - 1, Ceil(Max3(p0.x, p1.x, p2.x))),
     minY |-> Max2(0, Floor(Min3(p0.y, p1.y, p2.y))),
     maxY |-> Min2(h - 1, Ceil(Max3(p0.y, p1.y, p2.y)))]

\* a depth test that also lets an equally deep fragment through
testedPixelOrEqual(buf, idx, inBox, bc, z, color) ==
    IF inBox /\ bc.inside /\ z <= buf.depthBuffer[idx]
    THEN [color |-> color, depth |-> z]
    ELSE [color |-> buf.framebuffer[idx], depth |-> buf.depthBuffer[idx]]

\* the pixel (x, y) after the depth test against the interpolated depth z
testedPixel(buf, idx, inBox, bc, z, color) ==
    IF inBox /\ bc.inside /\ z < buf.depthBuffer[idx]
    THEN [color |-> color, depth |-> z]
    ELSE [color |-> buf.framebuffer[idx], depth |-> buf.depthBuffer[idx]]

coveredPixel(buf, idx, inBox, bc, p0, p1, p2, color) ==
    testedPixel(buf, idx, inBox, bc, RDiv(bc.u * p0.z + bc.v * p1.z + bc.w * p2.z, 100), color)

\* the pixel with buffer index idx after the triangle p0 p1 p2 has been drawn
drawPixel(buf, idx, x, y, box, p0, p1, p2, color) ==
    coveredPixel(buf, idx,
                 x >= box.minX /\ x <= box.maxX /\ y >= box.minY /\ y <= box.maxY,
                 barycentric(p0, p1, p2, x * SubPixel, y * SubPixel), p0, p1, p2, color)

buffersOf(pixels) ==
    [framebuffer |-> [idx \in DOMAIN pixels |-> pixels[idx].color],
     depthBuffer |-> [idx \in DOMAIN pixels |-> pixels[idx].depth]]

drawTriangle(buf, p0, p1, p2, box, color, w, h) ==
    buffersOf([idx \in 1..(w * h) |->
                 drawPixel(buf, idx, (idx - 1) % w, (idx - 1) \div w, box, p0, p1, p2, color)])

projectedFace(buf, p0, p1, p2, color, w, h) ==
    drawTriangle(buf, p0, p1, p2, boundingBox(p0, p1, p2, w, h), color, w, h)

\* one face of a mesh rasterized into [framebuffer, depthBuffer]
drawFace(buf, vertices, face, w, h) ==
    projectedFace(buf, project(vertices[face[1] + 1].position, w, h),
                  project(vertices[face[2] + 1].position, w, h),
                  project(vertices[face[3] + 1].position, w, h),
                  garmentColor(lightIntensity(vertices[face[1] + 1].normal)), w, h)

RECURSIVE drawFaces(_, _, _, _, _, _)
drawFaces(buf, vertices, faces, k, w, h) ==
    IF k > Len(faces) THEN buf
    ELSE drawFaces(drawFace(buf, vertices, faces[k], w, h), vertices, faces, k + 1, w, h)

RECURSIVE drawObjects(_, _, _, _, _, _)
drawObjects(buf, objs, meshes, k, w, h) ==
    IF k > Len(objs) THEN buf
    ELSE drawObjects(
            IF objs[k].visible
            THEN drawFaces(buf, meshes[objs[k].mesh], Faces(objs[k].mesh), 1, w, h)
            ELSE buf,
            objs, meshes, k + 1, w, h)

\* ARRenderer::Impl::drawGarments
withBuffers(r, buf) ==
    [r EXCEPT !.framebuffer = buf.framebuffer, !.depthBuffer = buf.depthBuffer]

\* a drawGarments that fills the depth buffer only while it is still as
\* resize() left it
drawGarmentsFillsOnce(r, meshes) ==
    withBuffers(r, drawObjects([framebuffer |-> r.framebuffer,
                                depthBuffer |-> [i \in 1..Len(r.depthBuffer) |->
                                                   IF r.depthBuffer[i] = 0 THEN FarDepth
                                                   ELSE r.depthBuffer[i]]],
                               r.garments, meshes, 1, r.width, r.height))

drawGarments(r, meshes) ==
    withBuffers(r, drawObjects([framebuffer |-> r.framebuffer,
                                depthBuffer |-> [i \in 1..Len(r.depthBuffer) |-> FarDepth]],
                               r.garments, meshes, 1, r.width, r.height))

\* ARRenderer::Impl::drawBackground
drawBackground(r) ==
    IF r.currentFrame.pixels = <<>> THEN r
    ELSE [(IF r.width # r.currentFrame.width \/ r.height # r.currentFrame.height
           THEN resize(r, r.currentFrame.width, r.currentFrame.height)
           ELSE r) EXCEPT !.framebuffer = r.currentFrame.pixels]

\* render() refuses only an uninitialized renderer
renderRefuses(r) == ~r.initialized

\* what render() returns once the renderer has drawn
rendered(drawn) ==
    [renderer |-> drawn, error |-> "SUCCESS",
     image |-> [width |-> drawn.width, height |-> drawn.height, pixels |-> drawn.framebuffer]]

\* ARRenderer::render: [renderer, error, image]
render(r, meshes) ==
    IF renderRefuses(r)
    THEN [renderer |-> r, error |-> "INITIALIZATION_FAILED", image |-> NoFrame]
    ELSE rendered(drawGarments(drawBackground(r), meshes))

\* ARRenderer::setCameraFrame
setCameraFrame(r, frame) == IF ~r.initialized THEN r ELSE [r EXCEPT !.currentFrame = frame]

\* index of the first render object drawing mesh g whose vertex count matches, or 0
FirstObject(objs, g, n, meshes) ==
    LET hits == {k \in 1..Len(objs) : objs[k].mesh = g /\ Len(meshes[g]) = n}
    IN  IF hits = {} THEN 0 ELSE CHOOSE k \in hits : \A j \in hits : k <= j

\* ARRenderer::updateGarmentMesh: the meshes after the write-back
updateGarmentMesh(r, meshes, g, positions) ==
    IF FirstObject(r.garments, g, Len(positions), meshes) = 0 THEN meshes
    ELSE [meshes EXCEPT ![g] = calculateNormals(positions, Faces(g))]

\* ARRenderer::addGarment: [renderer, meshes]
rendererAddGarment(r, meshes, g, positions) ==
    LET r2 == [r EXCEPT !.garments = Append(r.garments, [mesh |-> g, visible |-> TRUE])]
    IN  [renderer |-> r2, meshes |-> updateGarmentMesh(r2, meshes, g, positions)]

\* ARRenderer::removeGarment: drops every object that draws the garment's mesh
rendererRemoveGarment(r, g) ==
    [r EXCEPT !.garments = SelectSeq(r.garments, LAMBDA o : o.mesh # g)]

(***************************************************************************)
(* Texture: the garment image as loaded by GarmentConverter::convert.      *)
(* Texture coordinates are in 1/1000.                                      *)
(***************************************************************************)
RgbaImage(w, h, texel) ==
    [width |-> w, height |-> h, channels |-> 4,
     pixels |-> [i \in 1..(w * h * 4) |-> texel[((i - 1) % 4) + 1]]]

\* the images the garments are loaded from: g1 fully transparent, g2 opaque
GarmentImage(g) ==
    IF g = "g1" THEN RgbaImage(2, 2, <<200, 100, 50, 0>>)
    ELSE RgbaImage(2, 2, <<40, 80, 120, 255>>)

\* Texture::loadFromMemory
loadFromMemory(image) ==
    [width |-> image.width, height |-> image.height, channels |-> image.channels,
     pixels |-> image.pixels]

Clamp01(t) == IF t < 0 THEN 0 ELSE IF t > Milli THEN Milli ELSE t

\* the texel at byte offset idx (0-based)
texelAt(d, idx) ==
    IF idx >= 0 /\ idx < Len(d.pixels) - d.channels + 1
    THEN <<d.pixels[idx + 1],
           IF d.channels >= 2 THEN d.pixels[idx + 2] ELSE d.pixels[idx + 1],
           IF d.channels >= 3 THEN d.pixels[idx + 3] ELSE d.pixels[idx + 1],
           IF d.channels >= 4 THEN d.pixels[idx + 4] ELSE 255>>
    ELSE <<0, 0, 0, 255>>

\* Texture::sample: <<r, g, b, a>>
sample(d, u, v) ==
    IF d.pixels = <<>> \/ d.width = 0 \/ d.height = 0 THEN <<0, 0, 0, 0>>
    ELSE texelAt(d, (((Clamp01(v) * (d.height - 1)) \div Milli) * d.width
                     + ((Clamp01(u) * (d.width - 1)) \div Milli)) * d.channels)

\* GarmentConverter::convert: the texture of garment g
textureOf(g) == loadFromMemory(GarmentImage(g))

(***************************************************************************)
(* State                                                                   *)
(***************************************************************************)
VARIABLES
    sessionActive,      \* ARFitKit::Impl::sessionActive
    garmentRegistry,    \* ids of the loaded garments (an id names its garment)
    activeGarments,     \* ARFitKit::Impl::activeGarments, oldest first
    callbacks,          \* which of "frame", "pose", "error" are registered
    frameCount,         \* ARFitKit::Impl::frameCount
    bodyTracker,        \* BodyTracker::Impl
    physicsEngine,      \* PhysicsEngine::Impl
    renderer,           \* ARRenderer::Impl
    meshes,             \* vertex array of each garment's Mesh (shared with the renderer)
    pc,                 \* position of the processFrame in flight, "idle" if none
    frame,              \* processFrame's locals: the camera frame and stage results
    sessionsRun,        \* sessions started so far (bounded by MaxSessions)
    framesRun,          \* processFrame calls (or direct engine steps) started so far
    log,                \* what the processFrame in flight has done, in order
    ret,                \* what the last tryOn, captureSnapshot or processFrame
                        \* returned, with the trace of the frame's stages
    binding             \* the Android binding: the ARFitKit objects that have called
                        \* nativeInitialize, and the object and name of the last
                        \* native call

vars == <<sessionActive, garmentRegistry, activeGarments, callbacks, frameCount,
          bodyTracker, physicsEngine, renderer, meshes, pc, frame, sessionsRun, framesRun,
          log, ret, binding>>

kitVars == <<sessionActive, garmentRegistry, activeGarments, callbacks, frameCount>>
frameVars == <<pc, frame, framesRun, log>>
hostVars == <<sessionsRun, frameVars>>

\* inputs
UniformImage(w, h, c) == [width |-> w, height |-> h, pixels |-> [i \in 1..(w * h) |-> <<c, c, c, 255>>]]
CameraFrames == {UniformImage(4, 4, 10)}
Sways == {50}

NoLocals == [image |-> NoFrame, sway |-> 0, trackingError |-> "SUCCESS",
             renderError |-> "SUCCESS", renderImage |-> NoFrame]

Returned(op, arg, error, evicted, image, trace) ==
    [op |-> op, arg |-> arg, error |-> error, evicted |-> evicted, image |-> image,
     trace |-> trace]

Init ==
    /\ sessionActive = FALSE
    /\ garmentRegistry = {}
    /\ activeGarments = <<>>
    /\ callbacks = {}
    /\ frameCount = 0
    /\ bodyTracker = NewBodyTracker
    /\ physicsEngine = NewPhysicsEngine
    /\ renderer = NewRenderer
    /\ meshes = [g \in MeshedGarments |-> LoadedMesh(g)]
    /\ pc = "idle"
    /\ frame = NoLocals
    /\ sessionsRun = 0
    /\ framesRun = 0
    /\ log = <<>>
    /\ ret = Returned("new", "none", "SUCCESS", "none", NoFrame, <<>>)
    /\ binding = [instances |-> {}, caller |-> "none", op |-> "none"]

(***************************************************************************)
(* ARFitKit: session and garment calls (each holds Impl::mutex throughout) *)
(***************************************************************************)
\* ARFitKit::initialize
Initialize ==
    /\ bodyTracker' = [bodyTracker EXCEPT !.initialized = TRUE]
    /\ physicsEngine' = [physicsEngine EXCEPT !.initialized = TRUE]
    /\ renderer' = [renderer EXCEPT !.initialized = TRUE]
    /\ UNCHANGED <<kitVars, meshes, hostVars, ret>>

\* ARFitKit::startSession
StartSession ==
    /\ sessionActive \/ sessionsRun < MaxSessions
    /\ sessionActive' = TRUE
    /\ frameCount' = IF sessionActive THEN frameCount ELSE 0
    /\ sessionsRun' = IF sessionActive THEN sessionsRun ELSE sessionsRun + 1
    /\ UNCHANGED <<garmentRegistry, activeGarments, callbacks, bodyTracker,
                   physicsEngine, renderer, meshes, frameVars, ret>>

\* ARFitKit::stopSession
StopSession ==
    /\ sessionActive' = FALSE
    /\ activeGarments' = <<>>
    /\ physicsEngine' = reset(physicsEngine)
    /\ UNCHANGED <<garmentRegistry, callbacks, frameCount, bodyTracker, renderer,
                   meshes, hostVars, ret>>

\* the garment the next loadGarment creates: garments are named in load order
NextGarment(registry) == IF "g1" \notin registry THEN "g1" ELSE "g2"

\* ARFitKit::loadGarment: convert always succeeds and registers a new garment
LoadGarment ==
    /\ garmentRegistry # Garments
    /\ garmentRegistry' = garmentRegistry \cup {NextGarment(garmentRegistry)}
    /\ UNCHANGED <<sessionActive, activeGarments, callbacks, frameCount, bodyTracker,
                   physicsEngine, renderer, meshes, hostVars, ret>>

\* a capacity test that is late by one garment
listFullLate(active) == Len(active) > maxGarments

\* the capacity test of tryOn
listFull(active) == Len(active) >= maxGarments

\* the garment tryOn takes off when the list is full: the front one
evictIndex(active) == 1

RemoveAt(s, k) == [i \in 1..(Len(s) - 1) |-> IF i < k THEN s[i] ELSE s[i + 1]]

\* tryOn, lines 259-267: a full list gives up its oldest garment
makeRoom(st) ==
    IF listFull(st.active)
    THEN LET oldest == st.active[evictIndex(st.active)]
         IN  [st |-> [st EXCEPT !.active = RemoveAt(st.active, evictIndex(st.active)),
                                !.engine = removeGarment(st.engine, oldest),
                                !.renderer = rendererRemoveGarment(st.renderer, oldest)],
              evicted |-> oldest]
    ELSE [st |-> st, evicted |-> "none"]

\* tryOn, lines 269-287: cloth set-up (always succeeds), physics, renderer, list
shown(s1, engine, drawn, g, evicted) ==
    [st |-> [active |-> Append(s1.active, g), engine |-> engine,
             renderer |-> drawn.renderer, meshes |-> drawn.meshes],
     error |-> "SUCCESS", evicted |-> evicted]

simulated(s1, added, g, evicted) ==
    IF added.error # "SUCCESS"
    THEN [st |-> s1, error |-> added.error, evicted |-> evicted]
    ELSE shown(s1, added.engine,
               rendererAddGarment(s1.renderer, s1.meshes, g,
                                  getParticlePositions(added.engine, g)),
               g, evicted)

admit(room, g) ==
    simulated(room.st, addGarment(room.st.engine, g, room.st.meshes), g, room.evicted)

\* a tryOn that makes room before it looks the garment up
tryOnEvictsFirst(st, session, registry, g) ==
    IF ~session THEN [st |-> st, error |-> "SESSION_NOT_STARTED", evicted |-> "none"]
    ELSE LET room == makeRoom(st)
         IN  IF g \notin registry
             THEN [st |-> room.st, error |-> "INVALID_IMAGE", evicted |-> room.evicted]
             ELSE admit(room, g)

\* ARFitKit::tryOn on the state st = [active, engine, renderer, meshes]
tryOn(st, session, registry, g) ==
    IF ~session THEN [st |-> st, error |-> "SESSION_NOT_STARTED", evicted |-> "none"]
    ELSE IF g \notin registry THEN [st |-> st, error |-> "INVALID_IMAGE", evicted |-> "none"]
    ELSE admit(makeRoom(st), g)

KitState == [active |-> activeGarments, engine |-> physicsEngine,
             renderer |-> renderer, meshes |-> meshes]

\* the kit takes the state r.st and tryOn(g) returns r.error
Becomes(r, g) ==
    /\ activeGarments' = r.st.active
    /\ physicsEngine' = r.st.engine
    /\ renderer' = r.st.renderer
    /\ meshes' = r.st.meshes
    /\ ret' = Returned("tryOn", g, r.error, r.evicted, NoFrame, <<>>)

TryOn(g) ==
    /\ HasMesh(g) => Len(physicsEngine.particles) + Len(meshes[g]) <= MaxParticles
    /\ Len(renderer.garments) < MaxObjects
    /\ Becomes(tryOn(KitState, sessionActive, garmentRegistry, g), g)
    /\ UNCHANGED <<sessionActive, garmentRegistry, callbacks, frameCount, bodyTracker,
                   hostVars>>

FirstIndex(s, x) == CHOOSE k \in 1..Len(s) : s[k] = x /\ \A j \in 1..(k - 1) : s[j] # x
InSeq(s, x) == \E k \in 1..Len(s) : s[k] = x

\* ARFitKit::removeGarment
RemoveGarment(g) ==
    /\ IF g \in garmentRegistry /\ InSeq(activeGarments, g)
       THEN /\ physicsEngine' = removeGarment(physicsEngine, g)
            /\ renderer' = rendererRemoveGarment(renderer, g)
            /\ activeGarments' = RemoveAt(activeGarments, FirstIndex(activeGarments, g))
       ELSE UNCHANGED <<physicsEngine, renderer, activeGarments>>
    /\ UNCHANGED <<sessionActive, garmentRegistry, callbacks, frameCount, bodyTracker,
                   meshes, hostVars, ret>>

RECURSIVE removeEach(_, _, _)
removeEach(st, active, k) ==
    IF k > Len(active) THEN st
    ELSE removeEach([st EXCEPT !.engine = removeGarment(st.engine, active[k]),
                               !.renderer = rendererRemoveGarment(st.renderer, active[k])],
                    active, k + 1)

\* ARFitKit::removeAllGarments
RemoveAllGarments ==
    /\ LET st == removeEach(KitState, activeGarments, 1)
       IN  /\ physicsEngine' = st.engine
           /\ renderer' = st.renderer
    /\ activeGarments' = <<>>
    /\ UNCHANGED <<sessionActive, garmentRegistry, callbacks, frameCount, bodyTracker,
                   meshes, hostVars, ret>>

Snapshot(r) ==
    /\ renderer' = r.renderer
    /\ ret' = Returned("captureSnapshot", "none", r.error, "none", r.image, <<>>)

\* ARFitKit::captureSnapshot: renders, whatever the session state
CaptureSnapshot ==
    /\ Snapshot(render(renderer, meshes))
    /\ UNCHANGED <<kitVars, bodyTracker, physicsEngine, meshes, hostVars>>

\* ARFitKit::setFrameCallback, setPoseCallback and setErrorCallback: the host
\* registers its three callbacks together
SetCallbacks ==
    /\ callbacks = {}
    /\ callbacks' = {"frame", "pose", "error"}
    /\ UNCHANGED <<sessionActive, garmentRegistry, activeGarments, frameCount, bodyTracker,
                   physicsEngine, renderer, meshes, hostVars, ret>>

\* getBodyTracker().reset()
BodyTrackerReset ==
    /\ bodyTracker.initialized
    /\ bodyTracker' = [bodyTracker EXCEPT !.initialized = FALSE, !.hasPrevFrame = FALSE]
    /\ UNCHANGED <<kitVars, physicsEngine, renderer, meshes, hostVars, ret>>

(***************************************************************************)
(* ARFitKit::processFrame.  It takes no lock, so it is modelled stage by   *)
(* stage: between two stages a call from another thread can run.           *)
(***************************************************************************)
\* the stage that follows each stage of processFrame
NextStage(stage) ==
    CASE stage = "track" -> "step"
      [] stage = "step" -> "sync"
      [] stage = "sync" -> "render"
      [] stage = "render" -> "notify"
      [] OTHER -> "idle"

Notify(c, event) == IF c \in callbacks THEN <<event>> ELSE <<>>

\* an entry that runs the body tracker before it checks the session
PfBeginTrackingFirst(image, sway) ==
    /\ pc = "idle"
    /\ IF ~sessionActive
       THEN /\ ret' = Returned("processFrame", "none", "SESSION_NOT_STARTED", "none",
                            NoFrame, <<>>)
            /\ log' = <<>>
            /\ bodyTracker' = trackFrame(bodyTracker, sway).tracker
            /\ UNCHANGED <<pc, frame, framesRun>>
       ELSE /\ framesRun < MaxFrames
            /\ pc' = "track"
            /\ frame' = [NoLocals EXCEPT !.image = image, !.sway = sway]
            /\ framesRun' = framesRun + 1
            /\ log' = <<>>
            /\ UNCHANGED <<ret, bodyTracker>>
    /\ UNCHANGED <<kitVars, physicsEngine, renderer, meshes, sessionsRun>>

\* entry: the session check
PfBegin(image, sway) ==
    /\ pc = "idle"
    /\ IF ~sessionActive
       THEN /\ ret' = Returned("processFrame", "none", "SESSION_NOT_STARTED", "none",
                            NoFrame, <<>>)
            /\ log' = <<>>
            /\ UNCHANGED <<pc, frame, framesRun>>
       ELSE /\ framesRun < MaxFrames
            /\ pc' = "track"
            /\ frame' = [NoLocals EXCEPT !.image = image, !.sway = sway]
            /\ framesRun' = framesRun + 1
            /\ log' = <<>>
            /\ UNCHANGED ret
    /\ UNCHANGED <<kitVars, bodyTracker, physicsEngine, renderer, meshes, sessionsRun>>

\* 1. body tracking, pose / error callback, collision-body update
PfTrack ==
    /\ pc = "track"
    /\ LET t == trackFrame(bodyTracker, frame.sway)
       IN  /\ bodyTracker' = t.tracker
           /\ frame' = [frame EXCEPT !.trackingError = t.error]
           /\ IF t.error # "SUCCESS"
              THEN /\ log' = log \o Notify("error", "errorCallback")
                   /\ UNCHANGED physicsEngine
              ELSE /\ log' = log \o Notify("pose", "poseCallback") \o <<"updateCollisionBody">>
                   /\ physicsEngine' = updateCollisionBody(physicsEngine, t.bodyMesh)
    /\ pc' = NextStage(pc)
    /\ UNCHANGED <<kitVars, renderer, meshes, sessionsRun, framesRun, ret, binding>>

\* 2. one simulation step
PfStep ==
    /\ pc = "step"
    /\ physicsEngine' = step(physicsEngine, targetFPS)
    /\ log' = Append(log, "step")
    /\ pc' = NextStage(pc)
    /\ UNCHANGED <<kitVars, bodyTracker, renderer, meshes, frame, sessionsRun, framesRun,
                   ret, binding>>

RECURSIVE syncMeshes(_, _, _, _, _)
syncMeshes(ms, eng, r, active, k) ==
    IF k > Len(active) THEN ms
    ELSE syncMeshes(updateGarmentMesh(r, ms, active[k], getParticlePositions(eng, active[k])),
                    eng, r, active, k + 1)

\* 3. write-back of the particle positions into the active garments' meshes
PfSync ==
    /\ pc = "sync"
    /\ meshes' = syncMeshes(meshes, physicsEngine, renderer, activeGarments, 1)
    /\ log' = Append(log, "sync")
    /\ pc' = NextStage(pc)
    /\ UNCHANGED <<kitVars, bodyTracker, physicsEngine, renderer, frame, sessionsRun,
                   framesRun, ret, binding>>

Rendered(r) ==
    /\ renderer' = r.renderer
    /\ frame' = [frame EXCEPT !.renderError = r.error, !.renderImage = r.image]

\* 4. and 5. background and rasterization
PfRender ==
    /\ pc = "render"
    /\ Rendered(render(setCameraFrame(renderer, frame.image), meshes))
    /\ log' = Append(log, "render")
    /\ pc' = NextStage(pc)
    /\ UNCHANGED <<kitVars, bodyTracker, physicsEngine, meshes, sessionsRun, framesRun, ret, binding>>

\* a return that calls the frame callback whatever render() returned
PfFinishAlwaysNotifying ==
    /\ pc = "notify"
    /\ frameCount' = frameCount + 1
    /\ ret' = Returned("processFrame", frame.trackingError, frame.renderError, "none",
                       frame.renderImage, log \o Notify("frame", "frameCallback"))
    /\ log' = <<>>
    /\ frame' = NoLocals
    /\ pc' = NextStage(pc)
    /\ UNCHANGED <<sessionActive, garmentRegistry, activeGarments, callbacks, bodyTracker,
                   physicsEngine, renderer, meshes, sessionsRun, framesRun, binding>>

\* metrics, frame callback, return
PfFinish ==
    /\ pc = "notify"
    /\ frameCount' = frameCount + 1
    /\ ret' = Returned("processFrame", frame.trackingError, frame.renderError, "none",
                       frame.renderImage,
                       log \o (IF frame.renderError = "SUCCESS"
                               THEN Notify("frame", "frameCallback") ELSE <<>>))
    /\ log' = <<>>
    /\ frame' = NoLocals
    /\ pc' = NextStage(pc)
    /\ UNCHANGED <<sessionActive, garmentRegistry, activeGarments, callbacks, bodyTracker,
                   physicsEngine, renderer, meshes, sessionsRun, framesRun, binding>>

(***************************************************************************)
(* Specifications                                                          *)
(***************************************************************************)
\* The host sets the kit up before its session: callbacks, initialize and
\* tracker resets come before the garments are loaded, and the garments are
\* loaded into an initialized kit with its callbacks set.  It makes its
\* calls between frames.
Idle == pc = "idle"
BeforeSession == Idle /\ sessionsRun = 0
KitReady == bodyTracker.initialized /\ renderer.initialized /\ callbacks # {}

\* a call made on the C++ object itself, not through the Android binding
Direct == UNCHANGED binding

CallInitialize == BeforeSession /\ garmentRegistry = {} /\ Initialize /\ Direct
CallSetCallbacks == BeforeSession /\ garmentRegistry = {} /\ SetCallbacks /\ Direct
CallBodyTrackerReset == BeforeSession /\ garmentRegistry = {} /\ BodyTrackerReset /\ Direct
CallLoadGarment == BeforeSession /\ KitReady /\ LoadGarment /\ Direct
CallStartSession == Idle /\ StartSession /\ Direct
CallStopSession == Idle /\ StopSession /\ Direct
CallTryOn(g) == Idle /\ TryOn(g) /\ Direct
CallRemoveGarment(g) == Idle /\ RemoveGarment(g) /\ Direct
CallRemoveAllGarments == Idle /\ RemoveAllGarments /\ Direct
CallCaptureSnapshot == Idle /\ CaptureSnapshot /\ Direct
CallProcessFrame(image, sway) == PfBegin(image, sway) /\ Direct

\* one thread: a call starts only when no frame is in flight
Next ==
    \/ CallInitialize
    \/ CallSetCallbacks
    \/ CallBodyTrackerReset
    \/ CallLoadGarment
    \/ CallStartSession
    \/ CallStopSession
    \/ \E g \in Garments : CallTryOn(g)
    \/ \E g \in Garments : CallRemoveGarment(g)
    \/ CallRemoveAllGarments
    \/ CallCaptureSnapshot
    \/ \E image \in CameraFrames, sway \in Sways : CallProcessFrame(image, sway)
    \/ PfTrack
    \/ PfStep
    \/ PfSync
    \/ PfRender
    \/ PfFinish

Spec == Init /\ [][Next]_vars

(***************************************************************************)
(* Two threads, as in the Android binding: the processing loop runs        *)
(* processFrame on its own thread while the host calls tryOn,              *)
(* removeGarment, removeAllGarments and stopSession from another.  These   *)
(* calls hold Impl::mutex, processFrame does not, so each of them is one   *)
(* step that can fall between any two stages of a frame.                   *)
(***************************************************************************)
OtherStopSession == StopSession /\ Direct
OtherTryOn(g) == TryOn(g) /\ Direct
OtherRemoveGarment(g) == RemoveGarment(g) /\ Direct
OtherRemoveAllGarments == RemoveAllGarments /\ Direct

NextConc ==
    \/ CallInitialize
    \/ CallSetCallbacks
    \/ CallBodyTrackerReset
    \/ CallLoadGarment
    \/ CallStartSession
    \/ OtherStopSession
    \/ \E g \in Garments : OtherTryOn(g)
    \/ \E g \in Garments : OtherRemoveGarment(g)
    \/ OtherRemoveAllGarments
    \/ \E image \in CameraFrames, sway \in Sways : CallProcessFrame(image, sway)
    \/ PfTrack
    \/ PfStep
    \/ PfSync
    \/ PfRender
    \/ PfFinish

SpecConc == Init /\ [][NextConc]_vars

(***************************************************************************)
(* The Android binding (JNI).  Every ARFitKit object of the binding calls  *)
(* the same native functions, and these operate the one kit held in the    *)
(* static g_arFitKit: nativeInitialize replaces it by a new kit, the other *)
(* functions call the kit if there is one.  The core state of every object *)
(* of the binding is therefore the state of that one kit.  The binding     *)
(* registers no callbacks.                                                 *)
(***************************************************************************)
Instances == {"a", "b"}

\* g_arFitKit is non-null once some object has called nativeInitialize
HasKit == binding.instances # {}

Native(i, op) == binding' = [binding EXCEPT !.caller = i, !.op = op]

\* nativeInitialize: g_arFitKit = make_unique<ARFitKit>(); initialize(config)
NativeInitialize(i) ==
    /\ Idle
    /\ sessionActive' = FALSE
    /\ garmentRegistry' = {}
    /\ activeGarments' = <<>>
    /\ callbacks' = {}
    /\ frameCount' = 0
    /\ bodyTracker' = [NewBodyTracker EXCEPT !.initialized = TRUE]
    /\ physicsEngine' = [NewPhysicsEngine EXCEPT !.initialized = TRUE]
    /\ renderer' = [NewRenderer EXCEPT !.initialized = TRUE]
    /\ meshes' = [g \in MeshedGarments |-> LoadedMesh(g)]
    /\ binding' = [instances |-> binding.instances \cup {i}, caller |-> i,
                   op |-> "nativeInitialize"]
    /\ UNCHANGED <<hostVars, ret>>

NativeLoadGarment(i) == Idle /\ HasKit /\ LoadGarment /\ Native(i, "nativeLoadGarment")
NativeStartSession(i) == Idle /\ HasKit /\ StartSession /\ Native(i, "nativeStartSession")
NativeStopSession(i) == Idle /\ HasKit /\ StopSession /\ Native(i, "nativeStopSession")
NativeTryOn(i, g) == Idle /\ HasKit /\ TryOn(g) /\ Native(i, "nativeTryOn")
NativeRemoveAllGarments(i) ==
    Idle /\ HasKit /\ RemoveAllGarments /\ Native(i, "nativeRemoveAllGarments")
NativeProcessFrame(i, image, sway) ==
    HasKit /\ PfBegin(image, sway) /\ Native(i, "nativeProcessFrame")

NextBinding ==
    \/ \E i \in Instances : NativeInitialize(i)
    \/ \E i \in Instances : NativeLoadGarment(i)
    \/ \E i \in Instances : NativeStartSession(i)
    \/ \E i \in Instances : NativeStopSession(i)
    \/ \E i \in Instances, g \in Garments : NativeTryOn(i, g)
    \/ \E i \in Instances : NativeRemoveAllGarments(i)
    \/ \E i \in Instances, image \in CameraFrames, sway \in Sways :
          NativeProcessFrame(i, image, sway)
    \/ PfTrack
    \/ PfStep
    \/ PfSync
    \/ PfRender
    \/ PfFinish

SpecBinding == Init /\ [][NextBinding]_vars

(***************************************************************************)
(* The PhysicsEngine on its own, driven through its public interface.      *)
(***************************************************************************)
\* body meshes handed to updateCollisionBody
EngineBodies == {getSMPLMesh([translation |-> <<0, 100, 0>>]),
                 getSMPLMesh([translation |-> <<0, -300, 0>>])}

EngineAddGarment(g) ==
    /\ HasMesh(g) => Len(physicsEngine.particles) + Len(meshes[g]) <= MaxParticles
    /\ LET r == addGarment(physicsEngine, g, meshes)
       IN  /\ physicsEngine' = r.engine
           /\ ret' = Returned("addGarment", g, r.error, "none", NoFrame, <<>>)
    /\ UNCHANGED <<kitVars, bodyTracker, renderer, meshes, hostVars, binding>>

EngineRemoveGarment(g) ==
    /\ physicsEngine' = removeGarment(physicsEngine, g)
    /\ ret' = Returned("removeGarment", g, "SUCCESS", "none", NoFrame, <<>>)
    /\ UNCHANGED <<kitVars, bodyTracker, renderer, meshes, hostVars, binding>>

EngineUpdateCollisionBody(body) ==
    /\ physicsEngine' = updateCollisionBody(physicsEngine, body)
    /\ UNCHANGED <<kitVars, bodyTracker, renderer, meshes, hostVars, ret, binding>>

EngineStep ==
    /\ framesRun < MaxFrames
    /\ framesRun' = framesRun + 1
    /\ physicsEngine' = step(physicsEngine, targetFPS)
    /\ ret' = Returned("step", "none", "SUCCESS", "none", NoFrame, <<>>)
    /\ UNCHANGED <<kitVars, bodyTracker, renderer, meshes, sessionsRun, pc, frame, log, binding>>

EngineReset ==
    /\ physicsEngine' = reset(physicsEngine)
    /\ ret' = Returned("reset", "none", "SUCCESS", "none", NoFrame, <<>>)
    /\ UNCHANGED <<kitVars, bodyTracker, renderer, meshes, hostVars, binding>>

NextEngine ==
    \/ \E g \in Garments \cup {BareGarment, NullGarment} : EngineAddGarment(g)
    \/ \E g \in Garments : EngineRemoveGarment(g)
    \/ \E body \in EngineBodies : EngineUpdateCollisionBody(body)
    \/ EngineStep
    \/ EngineReset

SpecEngine == Init /\ [][NextEngine]_vars

(***************************************************************************)
(* The collision pass on its own: one free particle, any small body        *)
(***************************************************************************)
MaxPrimitives == 2

\* centres the primitives are drawn from: spheres 0 and 1 at two centres
\* overlap when the centres differ, and coincide when they are equal
CollideCentres == {<<0, 0, 0>>, <<200, 0, 0>>, <<0, 100, 0>>}
CollideBodies == UNION {[1..n -> CollideCentres] : n \in 1..MaxPrimitives}
CollidePositions == {<<50 * x, 50 * y, 0>> : x \in -4..5, y \in -2..4}

FreeParticle(pos) ==
    [position |-> pos, prevPosition |-> pos, velocity |-> Zero3, invMass |-> Milli,
     anchorBoneId |-> NoAnchor, garment |-> "g1", vertex |-> 0]

InitCollide ==
    /\ sessionActive = FALSE
    /\ garmentRegistry = {}
    /\ activeGarments = <<>>
    /\ callbacks = {}
    /\ frameCount = 0
    /\ bodyTracker = NewBodyTracker
    /\ \E pos \in CollidePositions, body \in CollideBodies :
          physicsEngine = [NewPhysicsEngine EXCEPT !.particles = <<FreeParticle(pos)>>,
                                                   !.lastBody = body]
    /\ renderer = NewRenderer
    /\ meshes = [g \in MeshedGarments |-> LoadedMesh(g)]
    /\ pc = "idle"
    /\ frame = NoLocals
    /\ sessionsRun = 0
    /\ framesRun = 0
    /\ log = <<>>
    /\ ret = Returned("new", "none", "SUCCESS", "none", NoFrame, <<>>)
    /\ binding = [instances |-> {}, caller |-> "none", op |-> "none"]

\* PhysicsEngine::Impl::solveCollisions, once
CollisionPass ==
    /\ ret.op = "new"
    /\ physicsEngine' = [physicsEngine EXCEPT
                           !.particles = solveCollisions(physicsEngine.particles,
                                                         physicsEngine.lastBody)]
    /\ ret' = Returned("solveCollisions", "none", "SUCCESS", "none", NoFrame, <<>>)
    /\ UNCHANGED <<kitVars, bodyTracker, renderer, meshes, hostVars, binding>>

NextCollide == CollisionPass

SpecCollide == InitCollide /\ [][NextCollide]_vars

(***************************************************************************)
(* Projection on its own: two points and their projections                 *)
(***************************************************************************)
\* camera-space points in front of, at and behind the near clamp
ProjectDepths == {-3000, -2600, -2500, -2400, -2399, -1000, 0, 500}
ProjectPoints == {<<x, 100, z>> : x \in {-300, 300}, z \in ProjectDepths}

InitProject ==
    /\ sessionActive = FALSE
    /\ garmentRegistry = {}
    /\ activeGarments = <<>>
    /\ callbacks = {}
    /\ frameCount = 0
    /\ bodyTracker = NewBodyTracker
    /\ physicsEngine = NewPhysicsEngine
    /\ renderer = resize([NewRenderer EXCEPT !.initialized = TRUE], 4, 4)
    /\ meshes = [g \in MeshedGarments |-> LoadedMesh(g)]
    /\ pc = "idle"
    /\ frame = NoLocals
    /\ sessionsRun = 0
    /\ framesRun = 0
    /\ log = <<>>
    /\ \E p \in ProjectPoints, q \in ProjectPoints :
          ret = Returned("new", <<p, q>>, "SUCCESS", "none", NoFrame, <<>>)
    /\ binding = [instances |-> {}, caller |-> "none", op |-> "none"]

\* project() applied to both points; ret.arg holds the points, ret.trace
\* their projections
Project ==
    /\ ret.op = "new"
    /\ ret' = Returned("project", ret.arg, "SUCCESS", "none", NoFrame,
                       <<project(ret.arg[1], renderer.width, renderer.height),
                         project(ret.arg[2], renderer.width, renderer.height)>>)
    /\ UNCHANGED <<kitVars, bodyTracker, physicsEngine, renderer, meshes, hostVars, binding>>

NextProject == Project

SpecProject == InitProject /\ [][NextProject]_vars

(***************************************************************************)
(* The solver loop on its own: a garment at rest with one free particle    *)
(* displaced, no gravity, no collision body                                *)
(***************************************************************************)
SolverDisplacements ==
    {<<100, 0, 0>>, <<-100, 0, 0>>, <<0, 100, 0>>, <<0, -100, 0>>, <<60, 80, 0>>, <<0, 0, 100>>}

displaced(eng, k, d) ==
    [eng EXCEPT !.particles[k].position = VAdd(eng.particles[k].position, d)]

InitSolver ==
    /\ sessionActive = FALSE
    /\ garmentRegistry = {}
    /\ activeGarments = <<>>
    /\ callbacks = {}
    /\ frameCount = 0
    /\ bodyTracker = NewBodyTracker
    /\ renderer = NewRenderer
    /\ meshes = [g \in MeshedGarments |-> LoadedMesh(g)]
    /\ \E g \in Garments, d \in SolverDisplacements :
         \E k \in DOMAIN meshes[g] :
            /\ addGarment(NewPhysicsEngine, g, meshes).engine.particles[k].invMass > 0
            /\ physicsEngine = displaced(addGarment(NewPhysicsEngine, g, meshes).engine, k, d)
    /\ pc = "idle"
    /\ frame = NoLocals
    /\ sessionsRun = 0
    /\ framesRun = 0
    /\ log = <<>>
    /\ ret = Returned("new", 0, "SUCCESS", "none", NoFrame, <<>>)
    /\ binding = [instances |-> {}, caller |-> "none", op |-> "none"]

\* one iteration of the solver loop of Impl::update; ret.arg counts them
SolverIteration ==
    /\ ret.arg < solverIterations
    /\ physicsEngine' = [physicsEngine EXCEPT
                           !.particles = solveCollisions(
                               solveConstraints(physicsEngine.particles,
                                                physicsEngine.constraints, 1),
                               physicsEngine.lastBody)]
    /\ ret' = Returned("solverIteration", ret.arg + 1, "SUCCESS", "none", NoFrame, <<>>)
    /\ UNCHANGED <<kitVars, bodyTracker, renderer, meshes, hostVars, binding>>

NextSolver == SolverIteration

SpecSolver == InitSolver /\ [][NextSolver]_vars

(***************************************************************************)
(* Impl::update statement by statement: phase 1, then the solver loop with *)
(* one step per constraint projection and one per collision pass, then     *)
(* phase 4.  frame holds the loop counters i and c, ret.arg the engine the *)
(* call started from, log the phases run so far.                           *)
(***************************************************************************)
\* displacements of one free particle at the start of the call; the last two
\* put the free vertex of g1 where gravity drops it onto a pinned vertex
UpdateDisplacements ==
    {<<0, 0, 0>>, <<100, 0, 0>>, <<0, -100, 0>>, <<-300, 1003, 0>>, <<300, 1003, 0>>}

UpdateBodies == EngineBodies \cup {<<>>}

InitUpdate ==
    /\ sessionActive = FALSE
    /\ garmentRegistry = {}
    /\ activeGarments = <<>>
    /\ callbacks = {}
    /\ frameCount = 0
    /\ bodyTracker = NewBodyTracker
    /\ renderer = NewRenderer
    /\ meshes = [g \in MeshedGarments |-> LoadedMesh(g)]
    /\ \/ physicsEngine = NewPhysicsEngine
       \/ \E g \in Garments, d \in UpdateDisplacements, body \in UpdateBodies :
            \E k \in DOMAIN meshes[g] :
               /\ addGarment(NewPhysicsEngine, g, meshes).engine.particles[k].invMass > 0
               /\ physicsEngine =
                    updateCollisionBody(
                        displaced(addGarment(NewPhysicsEngine, g, meshes).engine, k, d), body)
    /\ pc = "update"
    /\ frame = [i |-> 0, c |-> 0]
    /\ sessionsRun = 0
    /\ framesRun = 0
    /\ log = <<>>
    /\ ret = Returned("update", physicsEngine, "SUCCESS", "none", NoFrame, <<>>)
    /\ binding = [instances |-> {}, caller |-> "none", op |-> "none"]

\* a loop head that enters the last iteration behind its constraint pass
loopHeadPastConstraints(eng, i) ==
    IF i >= solverIterations THEN "velocities"
    ELSE IF eng.constraints = <<>> \/ i = solverIterations - 1 THEN "collisions"
    ELSE "constraints"

\* for (int i = 0; i < config.solverIterations; ++i): where control goes
\* when the loop condition is evaluated with counter i
loopHead(eng, i) ==
    IF i >= solverIterations THEN "velocities"
    ELSE IF eng.constraints = <<>> THEN "collisions"
    ELSE "constraints"

UpdateKeeps == <<kitVars, bodyTracker, renderer, meshes, sessionsRun, framesRun, ret, binding>>

\* if (particles.empty()) return;
UpdateEmpty ==
    /\ pc = "update" /\ physicsEngine.particles = <<>>
    /\ pc' = "returned"
    /\ UNCHANGED <<physicsEngine, frame, log, UpdateKeeps>>

\* phase 1
UpdateForces ==
    /\ pc = "update" /\ physicsEngine.particles # <<>>
    /\ physicsEngine' = [physicsEngine EXCEPT
                           !.particles = applyForces(physicsEngine.particles,
                                                     physicsEngine.lastBody, targetFPS)]
    /\ pc' = loopHead(physicsEngine, 0)
    /\ frame' = [i |-> 0, c |-> 0]
    /\ log' = <<"forces">>
    /\ UNCHANGED UpdateKeeps

\* one pass of the body of for (const auto &c : constraints)
UpdateConstraint ==
    /\ pc = "constraints"
    /\ physicsEngine' = [physicsEngine EXCEPT
                           !.particles = solveConstraint(physicsEngine.particles,
                                             physicsEngine.constraints[frame.c + 1])]
    /\ IF frame.c + 1 < Len(physicsEngine.constraints)
       THEN /\ pc' = "constraints"
            /\ frame' = [frame EXCEPT !.c = frame.c + 1]
       ELSE /\ pc' = "collisions"
            /\ frame' = [frame EXCEPT !.c = 0]
    /\ log' = Append(log, "constraint")
    /\ UNCHANGED UpdateKeeps

\* solveCollisions(); and the ++i of the solver loop
UpdateCollisions ==
    /\ pc = "collisions"
    /\ physicsEngine' = [physicsEngine EXCEPT
                           !.particles = solveCollisions(physicsEngine.particles,
                                                         physicsEngine.lastBody)]
    /\ pc' = loopHead(physicsEngine, frame.i + 1)
    /\ frame' = [i |-> frame.i + 1, c |-> 0]
    /\ log' = Append(log, "collisions")
    /\ UNCHANGED UpdateKeeps

\* phase 4
UpdateVelocities ==
    /\ pc = "velocities"
    /\ physicsEngine' = [physicsEngine EXCEPT
                           !.particles = deriveVelocities(physicsEngine.particles, targetFPS)]
    /\ pc' = "returned"
    /\ log' = Append(log, "velocities")
    /\ UNCHANGED <<frame, UpdateKeeps>>

NextUpdate ==
    \/ UpdateEmpty
    \/ UpdateForces
    \/ UpdateConstraint
    \/ UpdateCollisions
    \/ UpdateVelocities

SpecUpdate == InitUpdate /\ [][NextUpdate]_vars

(***************************************************************************)
(* The rasterization of one projected triangle on its own, for framebuffers *)
(* of any small size and projections inside and outside the screen          *)
(***************************************************************************)
\* framebuffer widths and heights, the empty framebuffer included
RasterSizes == 0..3

\* projections in sub-pixels: left of or above the screen, on it (for sizes of
\* 1 or more, 2 or more), right of or below it
RasterPoints == {[x |-> x, y |-> y, z |-> 1000] : x \in {-10, 4, 26}, y \in {-10, 12, 26}}

InitRaster ==
    /\ sessionActive = FALSE
    /\ garmentRegistry = {}
    /\ activeGarments = <<>>
    /\ callbacks = {}
    /\ frameCount = 0
    /\ bodyTracker = NewBodyTracker
    /\ physicsEngine = NewPhysicsEngine
    /\ \E w \in RasterSizes, h \in RasterSizes :
          renderer = resize([NewRenderer EXCEPT !.initialized = TRUE], w, h)
    /\ meshes = [g \in MeshedGarments |-> LoadedMesh(g)]
    /\ pc = "idle"
    /\ frame = NoLocals
    /\ sessionsRun = 0
    /\ framesRun = 0
    /\ log = <<>>
    /\ \E p0 \in RasterPoints, p1 \in RasterPoints, p2 \in RasterPoints :
          ret = Returned("new", <<p0, p1, p2>>, "SUCCESS", "none", NoFrame, <<>>)
    /\ binding = [instances |-> {}, caller |-> "none", op |-> "none"]

\* the pixels the loops over the bounding box visit: for each of them
\* barycentric() is evaluated and, inside the triangle, depthBuffer[y * width + x]
\* is read and the cell may be written
visited(box) == {<<x, y>> : x \in box.minX..box.maxX, y \in box.minY..box.maxY}

\* the body of the face loop of drawGarments() for the projected triangle in
\* ret.arg, on a depth buffer filled as drawGarments() fills it; ret.trace
\* holds the pixels visited
Rasterize ==
    /\ ret.op = "new"
    /\ renderer' = withBuffers(renderer,
                       projectedFace([framebuffer |-> renderer.framebuffer,
                                      depthBuffer |-> [i \in 1..Len(renderer.depthBuffer) |->
                                                         FarDepth]],
                                     ret.arg[1], ret.arg[2], ret.arg[3],
                                     garmentColor(Milli), renderer.width, renderer.height))
    /\ ret' = Returned("drawTriangle", ret.arg, "SUCCESS", "none", NoFrame,
                       visited(boundingBox(ret.arg[1], ret.arg[2], ret.arg[3],
                                           renderer.width, renderer.height)))
    /\ UNCHANGED <<kitVars, bodyTracker, physicsEngine, meshes, hostVars, binding>>

NextRaster == Rasterize

SpecRaster == InitRaster /\ [][NextRaster]_vars

(***************************************************************************)
(* Two runs of body fitting, collision-body update and step from the same  *)
(* engine, on poses that have the same landmarks and may differ in the     *)
(* visibility of the landmarks                                             *)
(***************************************************************************)
\* visibility arrays in 1/1000: uniform (0.95 as processFrame sets it, 1.0 as
\* estimate3DPose sets it, 0), or 0.95 with one landmark invisible
VisibilityMaps ==
    {[i \in LandmarkIds |-> v] : v \in {0, 950, 1000}}
        \cup {[i \in LandmarkIds |-> IF i = k THEN 0 ELSE 950] :
                k \in {NOSE, LEFT_SHOULDER, RIGHT_SHOULDER, LEFT_HIP, RIGHT_HIP}}

\* struct BodyPose
BodyPose(landmarks, visibility) ==
    [landmarks |-> landmarks, visibility |-> visibility, confidence |-> 980]

\* a fit that places the body at the centre of the hips it can see
fitPoseVisibleHips(pose) ==
    IF pose.visibility[LEFT_HIP] = 0 /\ pose.visibility[RIGHT_HIP] > 0
    THEN [translation |-> pose.landmarks[RIGHT_HIP]]
    ELSE IF pose.visibility[RIGHT_HIP] = 0 /\ pose.visibility[LEFT_HIP] > 0
    THEN [translation |-> pose.landmarks[LEFT_HIP]]
    ELSE fitSMPL(pose.landmarks)

\* BodyTracker::fitSMPL(const BodyPose &): reads the pose through getLandmark
fitPose(pose) == fitSMPL(pose.landmarks)

\* the engine after the collision body fitted to pose has been handed over
\* and one step has run
steppedOn(eng, pose) ==
    step(updateCollisionBody(eng, getSMPLMesh(fitPose(pose))), targetFPS)

InitVisibility ==
    /\ sessionActive = FALSE
    /\ garmentRegistry = {}
    /\ activeGarments = <<>>
    /\ callbacks = {}
    /\ frameCount = 0
    /\ bodyTracker = NewBodyTracker
    /\ renderer = NewRenderer
    /\ meshes = [g \in MeshedGarments |-> LoadedMesh(g)]
    /\ \E g \in Garments : physicsEngine = addGarment(NewPhysicsEngine, g, meshes).engine
    /\ pc = "idle"
    /\ frame = NoLocals
    /\ sessionsRun = 0
    /\ framesRun = 0
    /\ log = <<>>
    /\ \E sway \in {-50, 0, 50}, v1 \in VisibilityMaps, v2 \in VisibilityMaps :
          ret = Returned("new", <<BodyPose(RawLandmarks(sway), v1),
                                  BodyPose(RawLandmarks(sway), v2)>>,
                         "SUCCESS", "none", NoFrame, <<>>)
    /\ binding = [instances |-> {}, caller |-> "none", op |-> "none"]

\* both runs from the engine of the initial state; physicsEngine becomes the
\* engine of the first run, ret.trace the particle arrays of both
StepBothRuns ==
    /\ ret.op = "new"
    /\ physicsEngine' = steppedOn(physicsEngine, ret.arg[1])
    /\ ret' = Returned("step", ret.arg, "SUCCESS", "none", NoFrame,
                       <<steppedOn(physicsEngine, ret.arg[1]).particles,
                         steppedOn(physicsEngine, ret.arg[2]).particles>>)
    /\ UNCHANGED <<kitVars, bodyTracker, renderer, meshes, hostVars, binding>>

NextVisibility == StepBothRuns

SpecVisibility == InitVisibility /\ [][NextVisibility]_vars

(***************************************************************************)
(* Properties                                                              *)
(***************************************************************************)
\* C1: the active-garment list never holds more than maxGarments garments,
\* and a successful tryOn on a full list takes off exactly the garment that
\* has been active longest (the front of the list) and puts the new one last.
C1_ActiveBoundedFifo ==
    /\ [](Len(activeGarments) <= maxGarments)
    /\ [][\A g \in Garments :
            (TryOn(g) /\ ret'.error = "SUCCESS" /\ Len(activeGarments) = maxGarments)
            => /\ activeGarments' = Append(Tail(activeGarments), g)
               /\ ret'.evicted = Head(activeGarments)]_vars

\* a successful tryOn has just evicted a garment from a full list
C1_EvictionSeen ==
    /\ ret.op = "tryOn" /\ ret.error = "SUCCESS" /\ ret.evicted # "none"
    /\ Len(activeGarments) = maxGarments

C3_RejectedAddChangesNothing ==
    [][\A g \in {NullGarment, BareGarment} :
         EngineAddGarment(g) => ret'.error # "SUCCESS" /\ UNCHANGED physicsEngine]_vars

\* a null or meshless garment has just been rejected by an engine that
\* holds garments
C3_RejectedSeen ==
    /\ ret.op = "addGarment" /\ ret.arg \in {NullGarment, BareGarment}
    /\ ret.error = "INVALID_IMAGE"
    /\ physicsEngine.particles # <<>>

\* which vertex of which garment the particle at index i (0-based) is
ParticleId(eng, i) ==
    IF i + 1 \in DOMAIN eng.particles
    THEN <<eng.particles[i + 1].garment, eng.particles[i + 1].vertex>>
    ELSE <<"none", -1>>

\* the constraints not created for g, each with the particles its indices name
OtherConstraints(eng, g) ==
    LET cs == SelectSeq(eng.constraints, LAMBDA c : c.garment # g)
    IN  [k \in 1..Len(cs) |-> <<cs[k].garment, ParticleId(eng, cs[k].p1),
                                ParticleId(eng, cs[k].p2), cs[k].restLength>>]

\* the particles of h's range, in order
RangeParticles(eng, h) ==
    [i \in 1..eng.garmentMap[h].count |-> ParticleId(eng, eng.garmentMap[h].start + i - 1)]

\* C4: after removeGarment(g), every constraint created for another garment
\* still names the same two particles, and getParticlePositions(h) of every
\* garment h still in simulation returns the same particles in the same order.
C4_RemovalKeepsOthers ==
    [][\A g \in Garments :
         EngineRemoveGarment(g)
         => /\ OtherConstraints(physicsEngine', g) = OtherConstraints(physicsEngine, g)
            /\ \A h \in DOMAIN physicsEngine'.garmentMap :
                  /\ h \in DOMAIN physicsEngine.garmentMap
                  /\ RangeParticles(physicsEngine', h) = RangeParticles(physicsEngine, h)
                  /\ getParticlePositions(physicsEngine', h)
                       = getParticlePositions(physicsEngine, h)]_vars

\* a garment with particles has just been removed while a garment added
\* after it is still in simulation
C4_RemovedBeforeOther ==
    /\ ret.op = "removeGarment"
    /\ \E i \in DOMAIN physicsEngine.particles, h \in DOMAIN physicsEngine.garmentMap :
          /\ physicsEngine.particles[i].garment = ret.arg
          /\ physicsEngine.garmentMap[h].start >= i

\* the vertex count of the garments that have a range
RangeTotal(eng) ==
    LET RECURSIVE Sum(_)
        Sum(hs) == IF hs = {} THEN 0
                   ELSE LET h == CHOOSE x \in hs : TRUE
                        IN  eng.garmentMap[h].count + Sum(hs \ {h})
    IN  Sum(DOMAIN eng.garmentMap)

\* C5: a garment's particles exist only while the garment is in simulation:
\* every particle and every constraint belongs to a garment that has a range,
\* and the particle count is the total vertex count of those garments.
C5_ParticlesOnlyOfLiveGarments ==
    /\ \A i \in DOMAIN physicsEngine.particles :
          physicsEngine.particles[i].garment \in DOMAIN physicsEngine.garmentMap
    /\ \A k \in DOMAIN physicsEngine.constraints :
          physicsEngine.constraints[k].garment \in DOMAIN physicsEngine.garmentMap
    /\ Len(physicsEngine.particles) = RangeTotal(physicsEngine)

\* the one garment ever added has left the simulation and a later step has
\* moved its particle: it is no longer where the garment's mesh, last written
\* while the garment was active, has it
C5_RemovedGarmentStillStepped ==
    \E i \in DOMAIN physicsEngine.particles :
        LET p == physicsEngine.particles[i]
        IN  /\ p.garment \notin DOMAIN physicsEngine.garmentMap
            /\ ~InSeq(activeGarments, p.garment)
            /\ Len(physicsEngine.particles) = Len(meshes[p.garment])
            /\ p.position # meshes[p.garment][p.vertex + 1].position

\* C6: after stopSession the physics engine holds no particles, no
\* constraints, no garment ranges and no collision body of the stopped session.
C6_StopClearsPhysics ==
    [][StopSession => /\ physicsEngine'.particles = <<>>
                      /\ physicsEngine'.constraints = <<>>
                      /\ physicsEngine'.garmentMap = EmptyMap
                      /\ physicsEngine'.lastBody = <<>>]_vars

\* the session is stopped and the engine still holds its collision body
C6_BodyKeptAfterStop ==
    /\ ~sessionActive /\ sessionsRun > 0
    /\ physicsEngine.particles = <<>>
    /\ physicsEngine.lastBody # <<>>

\* C7: render before the renderer has output dimensions (never initialized,
\* or initialized but never given a camera frame) reports the not-initialized
\* error and leaves the framebuffer and the depth buffer unchanged.
C7_RenderRefusesWithoutFrame ==
    [][(CaptureSnapshot /\ (~renderer.initialized \/ renderer.currentFrame = NoFrame))
       => /\ ret'.error = "INITIALIZATION_FAILED"
          /\ UNCHANGED <<renderer.framebuffer, renderer.depthBuffer>>]_vars

\* render has reported success for an image without dimensions
C7_SuccessWithoutDimensions ==
    /\ ret.op = "captureSnapshot" /\ ret.error = "SUCCESS"
    /\ ret.image.width = 0 /\ ret.image.height = 0
    /\ renderer.currentFrame = NoFrame

\* the stage entries of a frame's trace, callbacks left out
Stages(trace) ==
    SelectSeq(trace, LAMBDA e : e \in {"updateCollisionBody", "step", "sync", "render"})

\* C8: when a frame of an active session has rendered, its stages have run in
\* the order collision-body update (when tracking succeeded), simulation step,
\* write-back, rasterization; every active garment's mesh holds the positions
\* its particles have after that frame's step, and the image of the frame is
\* the rendering of those meshes over the frame's camera image.
C8_StagesInOrder ==
    pc = "notify"
    => /\ Stages(log) = (IF frame.trackingError = "SUCCESS"
                         THEN <<"updateCollisionBody">> ELSE <<>>)
                        \o <<"step", "sync", "render">>
       /\ \A k \in DOMAIN activeGarments :
             MeshPositions(meshes[activeGarments[k]])
               = getParticlePositions(physicsEngine, activeGarments[k])
       /\ frame.renderError = "SUCCESS"
          => frame.renderImage
               = render(setCameraFrame(renderer, frame.image), meshes).image

\* a frame has rendered while a garment of the active list has no range and
\* no render object: the step has moved its particles, its mesh still holds
\* the old positions and the image is the camera image alone
C8_ActiveGarmentNotWritten ==
    /\ pc = "notify"
    /\ frame.trackingError = "SUCCESS" /\ frame.renderError = "SUCCESS"
    /\ frame.renderImage.pixels = frame.image.pixels
    /\ \E k \in DOMAIN activeGarments, i \in DOMAIN physicsEngine.particles :
          LET p == physicsEngine.particles[i]
          IN  /\ p.garment = activeGarments[k]
              /\ p.garment \notin DOMAIN physicsEngine.garmentMap
              /\ p.position # p.prevPosition
              /\ p.position # meshes[p.garment][p.vertex + 1].position

\* C9: while a frame is in flight, a tryOn, removeGarment, removeAllGarments
\* or stopSession of another thread does not change the active-garment list,
\* the particle array or the renderer's garment list.
C9_FrameSeesNoForeignChange ==
    [][(/\ pc # "idle"
        /\ \/ StopSession
           \/ RemoveAllGarments
           \/ \E g \in Garments : TryOn(g) \/ RemoveGarment(g))
       => UNCHANGED <<activeGarments, physicsEngine.particles, renderer.garments>>]_vars

\* a frame that began in an active session is between two of its stages and
\* the session has been stopped under it: the particles of the garment it
\* was to step, write back and draw are gone
C9_StoppedMidFrame ==
    /\ pc \in {"step", "sync", "render"}
    /\ ~sessionActive
    /\ activeGarments = <<>>
    /\ physicsEngine.particles = <<>>
    /\ renderer.garments # <<>>

\* C10: a frame whose body tracking or rendering failed yields no output: its
\* frame callback does not fire and it returns no success image.
C10_FailedFrameYieldsNothing ==
    (/\ ret.op = "processFrame"
     /\ ret.arg \notin {"SUCCESS", "none"} \/ ret.error # "SUCCESS")
    => /\ ~InSeq(ret.trace, "frameCallback")
       /\ ret.error # "SUCCESS"
       /\ ret.image = NoFrame

\* a frame whose tracking failed has still stepped and rendered, fired the
\* frame callback and returned a success image
C10_OutputAfterTrackingError ==
    /\ ret.op = "processFrame"
    /\ ret.arg = "INITIALIZATION_FAILED"
    /\ ret.error = "SUCCESS"
    /\ Stages(ret.trace) = <<"step", "sync", "render">>
    /\ InSeq(ret.trace, "errorCallback") /\ InSeq(ret.trace, "frameCallback")
    /\ ret.image.pixels # <<>>

\* C11: two instances of the SDK share no core state: a call made on one
\* instance (initialize, startSession, stopSession, tryOn, removeAllGarments,
\* processFrame and the stages of its frame) leaves the session flag, the
\* active garments, the particles and the framebuffer of every other
\* initialized instance unchanged.
C11_InstancesIsolated ==
    [][\A i \in Instances :
         (/\ binding.instances \ {i} # {}
          /\ \/ NativeInitialize(i)
             \/ NativeStartSession(i)
             \/ NativeStopSession(i)
             \/ NativeRemoveAllGarments(i)
             \/ \E g \in Garments : NativeTryOn(i, g)
             \/ \E image \in CameraFrames, sway \in Sways :
                   NativeProcessFrame(i, image, sway)
             \/ /\ binding.caller = i
                /\ PfTrack \/ PfStep \/ PfSync \/ PfRender \/ PfFinish)
         => UNCHANGED <<sessionActive, activeGarments, physicsEngine.particles,
                        renderer.framebuffer>>]_vars

\* both instances are initialized and a tryOn made on instance b has put a
\* garment into the empty active list of the kit that instance a operates too
C11_SharedCoreChanged ==
    /\ binding.instances = Instances
    /\ binding.caller = "b" /\ binding.op = "nativeTryOn"
    /\ ret.op = "tryOn" /\ ret.error = "SUCCESS"
    /\ Len(activeGarments) = 1
    /\ physicsEngine.particles # <<>>

\* an anchored particle: pinned, with a body part to follow
Anchored(p) == p.invMass = 0 /\ p.anchorBoneId # NoAnchor

RoundingSlack == 5

\* p is inside primitive i (0-based) of body
Colliding(p, body, i) ==
    VLenSq(VSub(p.position, body[i + 1])) < (collisionRadius(i) + collisionMargin) ^ 2

\* p is at least radius + margin away from primitive i, up to rounding
Clear(p, body, i) ==
    VLenSq(VSub(p.position, body[i + 1]))
        >= (collisionRadius(i) + collisionMargin - RoundingSlack) ^ 2

\* C13: after a collision pass, a free particle that was inside a primitive
\* is at least radius + margin away from that primitive's centre, for every
\* primitive of the body, overlapping primitives and a particle starting at
\* a primitive's centre included.
C13_PushedOutOfEveryPrimitive ==
    [][CollisionPass
       => \A k \in DOMAIN physicsEngine.particles :
            \A i \in 0..(Len(physicsEngine.lastBody) - 1) :
               (/\ physicsEngine.particles[k].invMass > 0
                /\ Colliding(physicsEngine.particles[k], physicsEngine.lastBody, i))
               => Clear(physicsEngine'.particles[k], physicsEngine.lastBody, i)]_vars

\* a pass has left a particle that started at a primitive's centre still
\* at that centre
C13_LeftAtCentre ==
    /\ ret.op = "solveCollisions"
    /\ \E k \in DOMAIN physicsEngine.particles :
          /\ physicsEngine.particles[k].invMass > 0
          /\ physicsEngine.particles[k].prevPosition = physicsEngine.lastBody[1]
          /\ physicsEngine.particles[k].position = physicsEngine.lastBody[1]

Reverse(s) == [i \in 1..Len(s) |-> s[Len(s) + 1 - i]]

\* the triangles drawGarments draws, in the order it draws them
trianglesOf(obj) ==
    IF obj.visible
    THEN [j \in 1..Len(Faces(obj.mesh)) |-> [mesh |-> obj.mesh, face |-> Faces(obj.mesh)[j]]]
    ELSE <<>>

RECURSIVE drawOrder(_)
drawOrder(objs) ==
    IF objs = <<>> THEN <<>> ELSE trianglesOf(Head(objs)) \o drawOrder(Tail(objs))

\* the triangles of a list drawn one after another
RECURSIVE drawList(_, _, _, _, _, _)
drawList(buf, tris, ms, k, w, h) ==
    IF k > Len(tris) THEN buf
    ELSE drawList(drawFace(buf, ms[tris[k].mesh], tris[k].face, w, h),
                  tris, ms, k + 1, w, h)

\* the buffers drawGarments starts from: the background, every depth far
cleared(r) ==
    [framebuffer |-> r.framebuffer,
     depthBuffer |-> [i \in 1..Len(r.depthBuffer) |-> FarDepth]]

\* each triangle of the list drawn alone over the background
solos(bg, tris, ms, w, h) ==
    [k \in 1..Len(tris) |-> drawList(bg, <<tris[k]>>, ms, 1, w, h)]

\* the triangles that cover pixel idx, and those of them that are closest
covering(alone, idx) == {k \in 1..Len(alone) : alone[k].depthBuffer[idx] < FarDepth}
closest(alone, idx) ==
    {k \in covering(alone, idx) :
        \A j \in covering(alone, idx) : alone[k].depthBuffer[idx] <= alone[j].depthBuffer[idx]}
firstOf(ks) == CHOOSE k \in ks : \A j \in ks : k <= j

\* out is bg with, at every pixel, the closest covering triangle, and the one
\* drawn first where several are equally close
closestFirst(out, bg, alone) ==
    \A idx \in DOMAIN bg.framebuffer :
        IF covering(alone, idx) = {}
        THEN out.framebuffer[idx] = bg.framebuffer[idx] /\ out.depthBuffer[idx] = FarDepth
        ELSE /\ out.framebuffer[idx] = alone[firstOf(closest(alone, idx))].framebuffer[idx]
             /\ out.depthBuffer[idx] = alone[firstOf(closest(alone, idx))].depthBuffer[idx]

sameDepths(a, b) == a.depthBuffer = b.depthBuffer
sameBuffers(a, b) == a.framebuffer = b.framebuffer /\ a.depthBuffer = b.depthBuffer

drawnInOrder(r, tris, ms) == drawList(cleared(r), tris, ms, 1, r.width, r.height)

\* C14 as stated: the image and the depths rendered now are the same when
\* the garments' triangles are drawn in the opposite order.
C14_DrawOrderIrrelevant ==
    sameBuffers(drawnInOrder(drawBackground(renderer), drawOrder(renderer.garments), meshes),
                drawnInOrder(drawBackground(renderer),
                             Reverse(drawOrder(renderer.garments)), meshes))

\* C14 amended: at every pixel the depth is that of the closest covering
\* triangle whatever the draw order, and the colour is that of the closest
\* covering triangle, the first drawn of them where several are equally close.
C14_ClosestWinsFirstOnTies ==
    /\ sameBuffers(drawGarments(drawBackground(renderer), meshes),
                   drawnInOrder(drawBackground(renderer), drawOrder(renderer.garments), meshes))
    /\ sameDepths(drawnInOrder(drawBackground(renderer), drawOrder(renderer.garments), meshes),
                  drawnInOrder(drawBackground(renderer),
                               Reverse(drawOrder(renderer.garments)), meshes))
    /\ closestFirst(drawnInOrder(drawBackground(renderer), drawOrder(renderer.garments), meshes),
                    cleared(drawBackground(renderer)),
                    solos(cleared(drawBackground(renderer)), drawOrder(renderer.garments),
                          meshes, drawBackground(renderer).width,
                          drawBackground(renderer).height))
    /\ closestFirst(drawnInOrder(drawBackground(renderer),
                                 Reverse(drawOrder(renderer.garments)), meshes),
                    cleared(drawBackground(renderer)),
                    solos(cleared(drawBackground(renderer)),
                          Reverse(drawOrder(renderer.garments)),
                          meshes, drawBackground(renderer).width,
                          drawBackground(renderer).height))

\* two triangles of different colour are equally close at a pixel
tieOfColours(alone) ==
    \E idx \in DOMAIN alone[1].framebuffer :
        \E j, k \in closest(alone, idx) :
            alone[j].framebuffer[idx] # alone[k].framebuffer[idx]

\* a snapshot has been rendered with two garments that are equally close at
\* a pixel and differ in colour there
C14_TieOfColours ==
    /\ ret.op = "captureSnapshot" /\ ret.error = "SUCCESS"
    /\ ret.image.pixels = renderer.framebuffer /\ ret.image.pixels # <<>>
    /\ Len(renderer.garments) >= 2
    /\ tieOfColours(solos(cleared(drawBackground(renderer)), drawOrder(renderer.garments),
                          meshes, drawBackground(renderer).width,
                          drawBackground(renderer).height))

\* texture coordinates a fragment may be sampled at
UVs == {0, 500, 1000}

\* out = albedo * light * alpha + existing * (1 - alpha), per colour channel
blend(texel, light, existing) ==
    [c \in 1..3 |-> (Shade(texel[c], light) * texel[4] + existing[c] * (255 - texel[4])) \div 255]

rgb(pixel) == [c \in 1..3 |-> pixel[c]]

\* the first k triangles of the list drawn over the background
drawnUpTo(r, tris, ms, k) ==
    drawList(cleared(r), SubSeq(tris, 1, k), ms, 1, r.width, r.height)

\* every fragment written between before and after is the texel blended over
\* what was there
fragmentsBlended(before, after, texel, light) ==
    \A idx \in DOMAIN after.framebuffer :
        after.depthBuffer[idx] # before.depthBuffer[idx]
        => rgb(after.framebuffer[idx]) = blend(texel, light, before.framebuffer[idx])

triangleBlended(r, tris, ms, k) ==
    \A u \in UVs, v \in UVs :
        fragmentsBlended(drawnUpTo(r, tris, ms, k - 1), drawnUpTo(r, tris, ms, k),
                         sample(textureOf(tris[k].mesh), u, v),
                         lightIntensity(ms[tris[k].mesh][tris[k].face[1] + 1].normal))

\* C15: every pixel a garment triangle writes gets the shaded texture colour
\* blended over the pixel that was there, weighted by the sampled alpha of
\* the garment's texture; with alpha zero the pixel keeps what was there.
C15_FragmentsBlendTexture ==
    \A k \in 1..Len(drawOrder(renderer.garments)) :
        triangleBlended(drawBackground(renderer), drawOrder(renderer.garments), meshes, k)

\* a frame rendered the garment with the fully transparent texture alone
\* and the image differs from the camera image
C15_TransparentGarmentVisible ==
    /\ ret.op = "processFrame" /\ ret.error = "SUCCESS"
    /\ renderer.garments = <<[mesh |-> "g1", visible |-> TRUE]>>
    /\ \A u \in UVs, v \in UVs : sample(textureOf("g1"), u, v)[4] = 0
    /\ \E idx \in DOMAIN ret.image.pixels :
          rgb(ret.image.pixels[idx]) # rgb(renderer.currentFrame.pixels[idx])

\* C16: rendering again with the same camera frame and the same meshes gives
\* the same image, pixel for pixel: right after a processFrame or a
\* captureSnapshot that returned an image, a captureSnapshot would return
\* that image again.
C16_RenderTwiceSameImage ==
    [][((PfFinish \/ CaptureSnapshot) /\ ret'.error = "SUCCESS")
       => render(renderer', meshes').image = ret'.image]_vars

\* a snapshot taken right after a frame shows a garment over the camera image
C16_SnapshotOfGarment ==
    /\ ret.op = "captureSnapshot" /\ ret.error = "SUCCESS"
    /\ frameCount > 0
    /\ renderer.garments # <<>>
    /\ ret.image.pixels # <<>>
    /\ ret.image.pixels # renderer.currentFrame.pixels

\* C17 as stated: of two projected points, the one with strictly smaller z
\* has strictly smaller depth, at or behind the near clamp too.
C17_DepthStrictlyMonotone ==
    ret.op = "project"
    => (ret.arg[1][3] < ret.arg[2][3] => ret.trace[1].z < ret.trace[2].z)

\* C17 amended: projection never reverses the order (smaller z, no larger
\* depth); the depth is strictly smaller unless both points are at or behind
\* the near clamp, and there both get the clamp depth.
C17_DepthMonotoneUpToClamp ==
    ret.op = "project" /\ ret.arg[1][3] < ret.arg[2][3]
    => /\ ret.trace[1].z <= ret.trace[2].z
       /\ ret.arg[2][3] + cameraOffset > nearDepth => ret.trace[1].z < ret.trace[2].z
       /\ ret.arg[2][3] + cameraOffset <= nearDepth
             => ret.trace[1].z = nearDepth /\ ret.trace[2].z = nearDepth

\* two points behind the near clamp, at different z, projected to one depth
C17_ClampedTogether ==
    /\ ret.op = "project"
    /\ ret.arg[1][3] < ret.arg[2][3]
    /\ ret.arg[2][3] + cameraOffset < nearDepth
    /\ ret.trace[1].z = ret.trace[2].z

\* vertex i of g's mesh is where particle (range start + i) of g is
vertexAligned(eng, ms, g) ==
    /\ g \in DOMAIN eng.garmentMap
    /\ eng.garmentMap[g].count = Len(ms[g])
    /\ eng.garmentMap[g].start + eng.garmentMap[g].count <= Len(eng.particles)
    /\ \A i \in 1..Len(ms[g]) :
          ms[g][i].position = eng.particles[eng.garmentMap[g].start + i].position

\* C18: when processFrame returns, every active garment's mesh has, vertex
\* by vertex, the position of the particle at (range start + vertex index)
\* as the frame's step left it, and getParticlePositions returns exactly
\* one position per vertex, in vertex order.
C18_MeshAlignedWithParticles ==
    [][PfFinish
       => \A k \in DOMAIN activeGarments' :
             /\ Len(getParticlePositions(physicsEngine', activeGarments'[k]))
                   = Len(meshes'[activeGarments'[k]])
             /\ vertexAligned(physicsEngine', meshes', activeGarments'[k])
             /\ getParticlePositions(physicsEngine', activeGarments'[k])
                   = MeshPositions(meshes'[activeGarments'[k]])]_vars

\* processFrame has returned an image while getParticlePositions of an
\* active garment is empty although its mesh has vertices
C18_NoPositionsForActiveGarment ==
    /\ ret.op = "processFrame" /\ ret.error = "SUCCESS"
    /\ pc = "idle"
    /\ \E k \in DOMAIN activeGarments :
          /\ getParticlePositions(physicsEngine, activeGarments[k]) = <<>>
          /\ meshes[activeGarments[k]] # <<>>

\* how far the particles of constraint c are from their rest length
constraintError(ps, c) ==
    Abs(VLen(VSub(ps[c.p1 + 1].position, ps[c.p2 + 1].position)) - c.restLength)

\* the error the solver is to reach by its last iteration
ConvergenceTolerance == 10

\* C19: on a static mesh without gravity and collisions, no constraint's
\* distance error grows from one solver iteration to the next, and after the
\* last iteration every error is within the tolerance.
C19_ErrorShrinksEveryIteration ==
    [][SolverIteration
       => \A k \in DOMAIN physicsEngine.constraints :
             /\ constraintError(physicsEngine'.particles, physicsEngine.constraints[k])
                  <= constraintError(physicsEngine.particles, physicsEngine.constraints[k])
                     + RoundingSlack
             /\ ret'.arg = solverIterations
                  => constraintError(physicsEngine'.particles, physicsEngine.constraints[k])
                       <= ConvergenceTolerance]_vars

\* the particles after the first k constraints of a pass have been projected
projectedUpTo(ps, cs, k) == solveConstraints(ps, SubSeq(cs, 1, k), 1)

\* the constraint can be projected: its particles are apart and not both pinned
projectable(ps, c) ==
    /\ ps[c.p1 + 1].position # ps[c.p2 + 1].position
    /\ ps[c.p1 + 1].invMass + ps[c.p2 + 1].invMass > 0

\* projecting c leaves c's own error at (1 - stiffness) of what it was
ownErrorShrinks(before, after, c) ==
    projectable(before, c)
    => constraintError(after, c)
         <= RDiv(constraintError(before, c) * (Milli - c.stiffness), Milli) + RoundingSlack

\* C19 amended: in every solver iteration each projection of a constraint
\* leaves that constraint's own distance error at a tenth of what it was
\* (the error of a constraint may still grow over an iteration when a later
\* projection moves a particle it shares), and after the last iteration
\* every error is within the tolerance.
C19_ProjectionShrinksOwnError ==
    [][SolverIteration
       => /\ physicsEngine'.particles
               = projectedUpTo(physicsEngine.particles, physicsEngine.constraints,
                               Len(physicsEngine.constraints))
          /\ \A k \in DOMAIN physicsEngine.constraints :
               /\ ownErrorShrinks(
                      projectedUpTo(physicsEngine.particles, physicsEngine.constraints, k - 1),
                      projectedUpTo(physicsEngine.particles, physicsEngine.constraints, k),
                      physicsEngine.constraints[k])
               /\ ret'.arg = solverIterations
                    => constraintError(physicsEngine'.particles, physicsEngine.constraints[k])
                         <= ConvergenceTolerance]_vars

\* the last iteration has run: particles have moved from where the garment
\* was added and every constraint is within the tolerance
C19_SettledAfterLastIteration ==
    /\ ret.op = "solverIteration" /\ ret.arg = solverIterations
    /\ \E i \in DOMAIN physicsEngine.particles :
          /\ physicsEngine.particles[i].invMass > 0
          /\ physicsEngine.particles[i].position # physicsEngine.particles[i].prevPosition
    /\ \A k \in DOMAIN physicsEngine.constraints :
          constraintError(physicsEngine.particles, physicsEngine.constraints[k])
             <= ConvergenceTolerance

\* the particle indices (0-based) of g's range
rangeIndices(eng, g) ==
    eng.garmentMap[g].start .. (eng.garmentMap[g].start + eng.garmentMap[g].count - 1)

\* C20: in every reachable state of the engine the ranges recorded for two
\* different garments share no particle index, and every range lies inside
\* the particle array.
C20_RangesDisjointAndInside ==
    /\ \A g \in DOMAIN physicsEngine.garmentMap :
          /\ physicsEngine.garmentMap[g].start >= 0
          /\ physicsEngine.garmentMap[g].count >= 0
          /\ physicsEngine.garmentMap[g].start + physicsEngine.garmentMap[g].count
                <= Len(physicsEngine.particles)
    /\ \A g, h \in DOMAIN physicsEngine.garmentMap :
          g # h => rangeIndices(physicsEngine, g) \cap rangeIndices(physicsEngine, h) = {}

\* two garments have ranges behind the particles of an earlier add of one of
\* them: the same garment was added more than once
C20_RangesAfterRepeatedAdd ==
    /\ ret.op = "addGarment" /\ ret.error = "SUCCESS"
    /\ \E g, h \in DOMAIN physicsEngine.garmentMap :
          /\ g # h
          /\ physicsEngine.garmentMap[g].count > 0 /\ physicsEngine.garmentMap[h].count > 0
          /\ \E i \in DOMAIN physicsEngine.particles :
                /\ physicsEngine.particles[i].garment = g
                /\ i - 1 \notin rangeIndices(physicsEngine, g)

\* C21: the collision body processFrame hands to the engine is indexed by
\* body part, so that after the frame's step a particle anchored to the left
\* or right shoulder is at that frame's left or right shoulder landmark.
C21_AnchoredAtShoulderLandmark ==
    [][(PfStep /\ frame.trackingError = "SUCCESS")
       => /\ \A b \in {LEFT_SHOULDER, RIGHT_SHOULDER} :
               /\ b < Len(physicsEngine.lastBody)
               /\ physicsEngine.lastBody[b + 1] = bodyTracker.prevLandmarks[b]
          /\ \A i \in DOMAIN physicsEngine'.particles :
               Anchored(physicsEngine'.particles[i])
               => physicsEngine'.particles[i].position
                    = bodyTracker.prevLandmarks[physicsEngine'.particles[i].anchorBoneId]]_vars

\* a tracked frame has returned with a shoulder-anchored particle at the
\* centre of the hips, away from its shoulder landmark
C21_AnchoredAtHipCentre ==
    /\ ret.op = "processFrame" /\ ret.arg = "SUCCESS" /\ ret.error = "SUCCESS"
    /\ \E i \in DOMAIN physicsEngine.particles :
          LET p == physicsEngine.particles[i]
          IN  /\ Anchored(p)
              /\ p.anchorBoneId \in {LEFT_SHOULDER, RIGHT_SHOULDER}
              /\ p.position = fitSMPL(bodyTracker.prevLandmarks).translation
              /\ p.position # bodyTracker.prevLandmarks[p.anchorBoneId]

\* the phases of one solver iteration over n constraints
iterationPhases(n) == [k \in 1..(n + 1) |-> IF k <= n THEN "constraint" ELSE "collisions"]

RECURSIVE iterations(_, _)
iterations(n, k) == IF k = 0 THEN <<>> ELSE iterationPhases(n) \o iterations(n, k - 1)

IsPrefix(s, t) == Len(s) <= Len(t) /\ s = SubSeq(t, 1, Len(s))

\* C22: in every step each of the solverIterations solver iterations is one
\* full constraint pass followed by one collision pass, in that order, and the
\* velocities are derived only after the last collision pass: the phases run
\* so far are always a prefix of forces, solverIterations times (every
\* constraint, then collisions), velocities; a call on a non-empty engine
\* returns after all of them, with the result of step.
C22_ConstraintsThenCollisionsThenVelocities ==
    LET n == Len(physicsEngine.constraints)
        all == <<"forces">> \o iterations(n, solverIterations) \o <<"velocities">>
    IN  /\ IsPrefix(log, all)
        /\ (pc = "returned" /\ physicsEngine.particles # <<>>)
           => /\ log = all
              /\ physicsEngine = step(ret.arg, targetFPS)

\* a call has returned after moving a free particle in its solver loop
C22_UpdateReturned ==
    /\ pc = "returned" /\ Len(log) > solverIterations
    /\ log[Len(log)] = "velocities" /\ log[Len(log) - 1] = "collisions"
    /\ \E k \in DOMAIN physicsEngine.particles :
          /\ physicsEngine.particles[k].invMass > 0
          /\ physicsEngine.particles[k].position # ret.arg.particles[k].position
          /\ physicsEngine.particles[k].velocity # Zero3

\* both particles of constraint c are pinned
bothPinned(ps, c) == ps[c.p1 + 1].invMass = 0 /\ ps[c.p2 + 1].invMass = 0

\* the particles of constraint c are closer than the epsilon: at the same point
\* of the millimetre grid
coincident(ps, c) == ps[c.p1 + 1].position = ps[c.p2 + 1].position

\* the constraint the last UpdateConstraint step projected
projected ==
    physicsEngine.constraints[IF pc = "constraints" THEN frame.c
                              ELSE Len(physicsEngine.constraints)]

\* C23: a distance constraint whose two particles are both pinned, or whose two
\* particles are closer together than the epsilon, changes the position of
\* neither particle, in any solver iteration.
C23_DegenerateConstraintMovesNothing ==
    [][UpdateConstraint
       => LET c == physicsEngine.constraints[frame.c + 1]
              ps == physicsEngine.particles
          IN  (bothPinned(ps, c) \/ coincident(ps, c))
              => /\ physicsEngine'.particles[c.p1 + 1].position = ps[c.p1 + 1].position
                 /\ physicsEngine'.particles[c.p2 + 1].position = ps[c.p2 + 1].position]_vars

\* the constraint just projected joins a free particle to a particle at the same
\* point, behind a constraint between two pinned particles in the same pass
C23_CoincidentProjected ==
    /\ log # <<>> /\ log[Len(log)] = "constraint"
    /\ coincident(physicsEngine.particles, projected)
    /\ ~bothPinned(physicsEngine.particles, projected)
    /\ \E k \in DOMAIN physicsEngine.constraints :
          /\ k < (IF pc = "constraints" THEN frame.c ELSE Len(physicsEngine.constraints))
          /\ bothPinned(physicsEngine.particles, physicsEngine.constraints[k])

\* C24: at the end of every step each free particle's velocity is (its final
\* position minus its position at the start of the step) divided by dt and
\* multiplied by the damping factor, whatever collision resolution did to the
\* velocity during the step.
C24_VelocityFromDisplacement ==
    pc = "returned"
    => \A k \in DOMAIN physicsEngine.particles :
          physicsEngine.particles[k].invMass > 0
          => physicsEngine.particles[k].velocity
               = VScaleDiv(VSub(physicsEngine.particles[k].position,
                                ret.arg.particles[k].position),
                           targetFPS * dampingPct, 100)

\* a step has returned whose first collision pass, entered straight from
\* phase 1, scaled the velocity of a free particle
C24_VelocityScaledInCollision ==
    /\ pc = "returned" /\ physicsEngine.particles # <<>>
    /\ LET ps == applyForces(ret.arg.particles, ret.arg.lastBody, targetFPS)
       IN  /\ solveConstraints(ps, ret.arg.constraints, 1) = ps
           /\ \E k \in DOMAIN ps :
                 /\ ps[k].invMass > 0
                 /\ solveCollisions(ps, ret.arg.lastBody)[k].velocity # ps[k].velocity
                 /\ physicsEngine.particles[k].velocity # Zero3

\* C25: for any garment vertex positions, projections far outside the screen
\* included, and any framebuffer size, rasterization reads and writes only
\* framebuffer and depth-buffer cells whose pixel coordinates lie inside
\* [0, width) x [0, height): every pixel visited is on the screen and its index
\* y * width + x is a cell of both buffers.
C25_VisitedPixelsOnScreen ==
    ret.op = "drawTriangle"
    => \A px \in ret.trace :
          /\ px[1] \in 0..(renderer.width - 1)
          /\ px[2] \in 0..(renderer.height - 1)
          /\ px[2] * renderer.width + px[1] + 1 \in DOMAIN renderer.depthBuffer
          /\ px[2] * renderer.width + px[1] + 1 \in DOMAIN renderer.framebuffer

\* a triangle with projections off the screen on both sides has been drawn:
\* every pixel of the screen was visited and one of them written
C25_TriangleAcrossScreen ==
    /\ ret.op = "drawTriangle"
    /\ renderer.width > 1 /\ renderer.height > 1
    /\ \E i, j \in 1..3 :
          /\ ret.arg[i].x < 0 /\ ret.arg[i].y < 0
          /\ ret.arg[j].x > renderer.width * SubPixel
    /\ Cardinality(ret.trace) = renderer.width * renderer.height
    /\ \E idx \in DOMAIN renderer.depthBuffer : renderer.depthBuffer[idx] < FarDepth

\* C26: the collision primitives used in a step depend only on landmark
\* positions, never on their visibility or confidence: two runs that differ
\* only in the visibility values of the landmarks produce identical particle
\* positions.
C26_VisibilityDoesNotMoveParticles ==
    ret.op = "step"
    => (ret.arg[1].landmarks = ret.arg[2].landmarks
        => \A k \in DOMAIN ret.trace[1] :
              ret.trace[1][k].position = ret.trace[2][k].position)

\* two runs have stepped on poses of which one sees the left hip and the other
\* does not, and the step moved an anchored and a free particle
C26_RunsDifferInHipVisibility ==
    /\ ret.op = "step"
    /\ ret.arg[1].visibility[LEFT_HIP] = 0 /\ ret.arg[2].visibility[LEFT_HIP] > 0
    /\ ret.arg[2].visibility[RIGHT_HIP] > 0
    /\ \E i, j \in DOMAIN physicsEngine.particles :
          /\ Anchored(physicsEngine.particles[i])
          /\ physicsEngine.particles[i].position # physicsEngine.particles[i].prevPosition
          /\ physicsEngine.particles[j].invMass > 0
          /\ physicsEngine.particles[j].position # physicsEngine.particles[j].prevPosition

\* the garments the renderer draws, those with a range in the engine, and those
\* in the active list
drawnGarments == {renderer.garments[k].mesh : k \in DOMAIN renderer.garments}
rangedGarments == DOMAIN physicsEngine.garmentMap
listedGarments == {activeGarments[k] : k \in DOMAIN activeGarments}

\* C27: after any sequence of startSession, tryOn, removeGarment,
\* removeAllGarments and stopSession (the same garment tried on twice
\* included), the garments drawn by the renderer, the garments with a range in
\* the physics engine and the garments in the active list are the same set.
C27_DrawnRangedListedAgree ==
    drawnGarments = rangedGarments /\ rangedGarments = listedGarments

\* the session has been stopped and the renderer still draws a garment that is
\* neither listed nor simulated
C27_DrawnAfterStopSession ==
    /\ ~sessionActive /\ sessionsRun > 0
    /\ listedGarments = {} /\ rangedGarments = {}
    /\ drawnGarments # {}

\* the particles and constraints of garment g in eng are those addGarment
\* makes from the rest shape of g: positions, pinned and anchored particles,
\* rest lengths
fromRestShape(eng, g) ==
    LET r == eng.garmentMap[g]
        rest == RestPositions(g)
    IN  /\ r.count = Len(rest)
        /\ \A i \in 1..r.count :
              LET p == eng.particles[r.start + i]
                  q == NewParticle(rest[i], g, i - 1)
              IN  /\ p.position = q.position
                  /\ p.invMass = q.invMass
                  /\ p.anchorBoneId = q.anchorBoneId
        /\ \A k \in DOMAIN eng.constraints :
              LET c == eng.constraints[k]
              IN  (c.p1 >= r.start /\ c.p1 < r.start + r.count)
                  => c.restLength
                       = VLen(VSub(rest[c.p1 - r.start + 1], rest[c.p2 - r.start + 1]))

\* C28: trying a garment on, running frames, removing it and trying it on
\* again starts the second simulation from the garment's original rest shape:
\* every successful tryOn leaves the garment's particles at the rest
\* positions, with the same pinned and anchored particles and the same
\* constraint rest lengths as the first.
C28_TryOnStartsFromRestShape ==
    [][\A g \in Garments :
          (TryOn(g) /\ ret'.error = "SUCCESS") => fromRestShape(physicsEngine', g)]_vars

\* g1 has been tried on again after a frame: its new particles are where the
\* frame left the mesh, and none of them is pinned
C28_SecondTryOnOfDeformedMesh ==
    /\ ret.op = "tryOn" /\ ret.arg = "g1" /\ ret.error = "SUCCESS"
    /\ framesRun > 0 /\ pc = "idle"
    /\ "g1" \in DOMAIN physicsEngine.garmentMap
    /\ physicsEngine.garmentMap["g1"].start > 0
    /\ \A i \in 1..physicsEngine.garmentMap["g1"].count :
          LET p == physicsEngine.particles[physicsEngine.garmentMap["g1"].start + i]
          IN  /\ p.position = meshes["g1"][i].position
              /\ p.prevPosition = p.position
              /\ p.position # RestPositions("g1")[i]
              /\ p.invMass > 0

\* C29: processFrame called while no session is active returns
\* SESSION_NOT_STARTED and has no effect: no tracking, no simulation step, no
\* render, no callback and no change to the frame counters.
C29_NoSessionNoEffect ==
    [][\A image \in CameraFrames, sway \in Sways :
          (CallProcessFrame(image, sway) /\ ~sessionActive)
          => /\ ret'.op = "processFrame" /\ ret'.error = "SESSION_NOT_STARTED"
             /\ ret'.image = NoFrame /\ ret'.trace = <<>>
             /\ pc' = "idle"
             /\ UNCHANGED <<bodyTracker, physicsEngine, renderer, meshes, kitVars,
                            framesRun>>]_vars

\* a frame has been refused after a session with a tracked frame and a garment
\* that the renderer still holds, with all callbacks registered
C29_FrameRefusedAfterSession ==
    /\ ret.op = "processFrame" /\ ret.error = "SESSION_NOT_STARTED"
    /\ ~sessionActive /\ pc = "idle"
    /\ callbacks = {"frame", "pose", "error"}
    /\ bodyTracker.initialized /\ bodyTracker.hasPrevFrame
    /\ renderer.garments # <<>>
    /\ frameCount > 0

\* how often event e occurs in a trace, and the place of its first occurrence
\* (0 if it does not occur)
timesIn(trace, e) == Cardinality({k \in DOMAIN trace : trace[k] = e})
placeIn(trace, e) ==
    IF timesIn(trace, e) = 0 THEN 0
    ELSE CHOOSE k \in DOMAIN trace :
            trace[k] = e /\ \A j \in DOMAIN trace : trace[j] = e => k <= j

\* C30: in each processFrame of an active session with all callbacks
\* registered, exactly one of the pose callback (tracking succeeded) and the
\* error callback (tracking failed) fires, it fires before the simulation step
\* of that frame, and the frame callback fires after rendering and only if
\* rendering succeeded.
C30_CallbacksOfAFrame ==
    (ret.op = "processFrame" /\ ret.error # "SESSION_NOT_STARTED"
        /\ callbacks = {"frame", "pose", "error"})
    => LET t == ret.trace
           first == IF ret.arg = "SUCCESS" THEN "poseCallback" ELSE "errorCallback"
       IN  /\ timesIn(t, "poseCallback") = (IF ret.arg = "SUCCESS" THEN 1 ELSE 0)
           /\ timesIn(t, "errorCallback") = (IF ret.arg = "SUCCESS" THEN 0 ELSE 1)
           /\ timesIn(t, "step") = 1
           /\ placeIn(t, first) < placeIn(t, "step")
           /\ timesIn(t, "render") = 1
           /\ timesIn(t, "frameCallback") = (IF ret.error = "SUCCESS" THEN 1 ELSE 0)
           /\ ret.error = "SUCCESS" => placeIn(t, "render") < placeIn(t, "frameCallback")

\* a frame has returned whose tracking failed and whose rendering succeeded,
\* with all callbacks registered: the error callback, the step, the rendering
\* and the frame callback have run
C30_ErrorThenFrameCallback ==
    /\ ret.op = "processFrame" /\ ret.arg # "SUCCESS" /\ ret.error = "SUCCESS"
    /\ callbacks = {"frame", "pose", "error"}
    /\ ret.trace = <<"errorCallback", "step", "sync", "render", "frameCallback">>

=============================================================================
